---- MODULE Spec2Model ----
(***************************************************************************)
(* Sentereige: sortable grid/list containers with cross-container drag and *)
(* drop.  The module models the drag interaction state machine (useDrag),  *)
(* the container component that wires it to the child order and to the     *)
(* sequential layout (Sentereige, useChildOrder, useSequentialLayout), and *)
(* the drag reducer.                                                       *)
(*                                                                         *)
(* Execution model.  JavaScript is single threaded: a handler, a timer     *)
(* callback or an animation-frame callback runs to completion, so each is  *)
(* one action.  A document-level pointer event is delivered to the         *)
(* listener of every mounted container; the delivery is one action per     *)
(* container and no timer or frame callback runs before the delivery is    *)
(* complete.  The order of the listeners on the document changes whenever  *)
(* a container re-registers them (every render), so the containers handle  *)
(* an event, and run their frame callbacks, in any order.  State updates   *)
(* a callback makes are rendered, and the effects of that render run,      *)
(* before the next callback: Render is part of the action that updates.    *)
(***************************************************************************)
EXTENDS Integers, Sequences, FiniteSets, TLC

\* ------------------------------------------------------------------ bounds

\* Pointer-down events in one behaviour.
MaxPresses == 1
MaxDrags == 2
MaxMoves == 3

\* --------------------------------------------------------- program constants

\* options.gutter ?? 0: the gutter prop of the containers.
VARIABLE gutter
Gutter == gutter

\* The groupId and dragSources props of the containers, and the number of
\* presses a behaviour may hold.
VARIABLES props, pressLimit
DefaultItemWidth == 10
DefaultItemHeight == 300
LongPressMoveTolerancePx == 50

\* ------------------------------------------------------------------ values

Null == "null"
NoPoint == << >>
\* A and B are given their names as id; N is mounted without an id prop.
Cont == {"A", "B", "N"}
CloneIds == 1 .. MaxDrags

\* Pointer positions used as inputs (client pixels).  <<50,101>> is exactly
\* tolerance+1 pixels from <<50,50>>; <<50,90>> is within tolerance of both.
Points ==
  { <<50, 50>>, <<50, 100>>, <<50, 101>>, <<50, 250>>, <<250, 150>> }

Keys == {"x", "y", "z", "p", "q", "a", "b", "c"}
\* The id prop of container c; it defaults to the empty string.
ContainerId(c) == IF c = "N" THEN "" ELSE c
GroupId(c) == props.groupId[c]
DragSources(c) == props.dragSources[c]
IsSortable(c) == TRUE

\* getBoundingClientRect of the scroll container of c; the containers stand
\* side by side and their content fits, so scrollTop is 0.
ContainerRect(c) ==
  [left   |-> IF c = "B" THEN 200 ELSE 0,
   right  |-> IF c = "B" THEN 300 ELSE 100,
   top    |-> 0,
   bottom |-> 500]
ContainerWidth(c) == ContainerRect(c).right - ContainerRect(c).left
ScrollTop(c) == 0

\* contentRect the ResizeObserver reports for a rendered item.
MeasuredSize(k) == [width |-> 100, height |-> 100]

\* ------------------------------------------------------ sequence helpers

Max(a, b) == IF a >= b THEN a ELSE b

Range(s) == { s[i] : i \in 1 .. Len(s) }

\* Array.prototype.findIndex on a key list, 0-based, -1 when absent.
KeyIndex(s, k) ==
  IF \E i \in 1 .. Len(s) : s[i] = k
    THEN (CHOOSE i \in 1 .. Len(s) : s[i] = k /\ \A j \in 1 .. (i - 1) : s[j] # k) - 1
    ELSE -1

\* Array.prototype.filter(oc => oc.key !== k)
RECURSIVE Without(_, _)
Without(s, k) ==
  IF s = << >> THEN << >>
  ELSE IF Head(s) = k THEN Without(Tail(s), k)
  ELSE <<Head(s)>> \o Without(Tail(s), k)

\* [...s.slice(0, i), e, ...s.slice(i)] with a 0-based i in 0 .. Len(s)
InsertAt(s, i, e) == SubSeq(s, 1, i) \o <<e>> \o SubSeq(s, i + 1, Len(s))

\* s.splice(i, 1) with a 0-based i
RemoveAt(s, i) == SubSeq(s, 1, i) \o SubSeq(s, i + 2, Len(s))

\* s.splice(i, 0, e): an index past the end appends
SpliceIn(s, i, e) == IF i >= Len(s) THEN Append(s, e) ELSE InsertAt(s, i, e)

Count(s, k) == Cardinality({ i \in 1 .. Len(s) : s[i] = k })

\* ------------------------------------------------------------ dragReducer

InitialDragState == [dragOverId |-> Null, draggingId |-> Null, dragOffset |-> <<0, 0>>]

\* A CROSS_DRAG that takes over the dragOverId of its action.
CROSS_DRAG_TakesDragOver(state, draggingId, dragOverId, dragOffset) ==
  [state EXCEPT !.dragOffset = dragOffset, !.draggingId = draggingId, !.dragOverId = dragOverId]

\* An UPDATE_DRAG that clears the offset.
UPDATE_DRAG_ClearsOffset(state, draggingId, dragOverId) ==
  [state EXCEPT !.dragOverId = dragOverId, !.draggingId = draggingId, !.dragOffset = <<0, 0>>]

\* A SETTLE_DRAG that also clears dragOverId.
SETTLE_DRAG_ClearsDragOver(state) == [state EXCEPT !.draggingId = Null, !.dragOverId = Null]

\* An END_DRAG that keeps the offset.
END_DRAG_KeepsOffset(state) == [state EXCEPT !.dragOverId = Null, !.draggingId = Null]

START_DRAG(state, draggingId, dragOffset) ==
  [state EXCEPT !.dragOffset = dragOffset, !.draggingId = draggingId, !.dragOverId = Null]

CROSS_DRAG(state, draggingId, dragOverId, dragOffset) ==
  [state EXCEPT !.dragOffset = dragOffset, !.draggingId = draggingId, !.dragOverId = Null]

UPDATE_DRAG(state, draggingId, dragOverId) ==
  [state EXCEPT !.dragOverId = dragOverId, !.draggingId = draggingId]

END_DRAG(state) ==
  [state EXCEPT !.dragOverId = Null, !.draggingId = Null, !.dragOffset = <<0, 0>>]

SETTLE_DRAG(state) == [state EXCEPT !.draggingId = Null]

\* The default case of the switch, taken by an action of no known type.
DefaultCase(state) ==
  [state EXCEPT !.dragOverId = Null, !.draggingId = Null, !.dragOffset = <<0, 0>>]

\* ---------------------------------------------------- useSequentialLayout

\* An ItemPosition; width = 0 and height = 0 stand for "not measured yet"
\* (measured sizes are positive: onConfirmItemSize drops a zero size).
Position(key, stage, index, left, top, width, height) ==
  [key |-> key, stage |-> stage, index |-> index, left |-> left, top |-> top,
   width |-> width, height |-> height]

CacheHas(cache, k) == \E i \in 1 .. Len(cache) : cache[i].key = k
CacheEntry(cache, k) ==
  cache[CHOOSE i \in 1 .. Len(cache) :
          cache[i].key = k /\ \A j \in 1 .. (i - 1) : cache[j].key # k]

\* Math.min(...colHeights) and colHeights.indexOf(min), 1-based
MinHeight(h) == CHOOSE m \in Range(h) : \A v \in Range(h) : m <= v

\* A column choice that always takes the first column.
ShortestColumn_First(h) == 1
ShortestColumn(h) ==
  CHOOSE i \in 1 .. Len(h) : h[i] = MinHeight(h) /\ \A j \in 1 .. (i - 1) : h[j] # MinHeight(h)

ColumnCount(cache, containerWidth) ==
  LET gutterX == Max(0, Gutter)
      width == IF Len(cache) > 0 /\ cache[1].width # 0 THEN cache[1].width ELSE DefaultItemWidth
  IN Max(1, (containerWidth + gutterX) \div (width + gutterX))

\* A column width that leaves the gutter out.
ColumnWidth_NoGutter(cache) ==
  IF Len(cache) > 0 /\ cache[1].width # 0 THEN cache[1].width ELSE DefaultItemWidth

ColumnWidth(cache) ==
  (IF Len(cache) > 0 /\ cache[1].width # 0 THEN cache[1].width ELSE DefaultItemWidth)
    + Max(0, Gutter)

\* Column heights after the first n positions were put, each on the column
\* that was shortest at its turn.
RECURSIVE ColHeights(_, _, _)
ColHeights(ps, n, cols) ==
  IF n = 0 THEN [i \in 1 .. cols |-> 0]
  ELSE LET h == ColHeights(ps, n - 1, cols)
           add == (IF ps[n].height # 0 THEN ps[n].height ELSE DefaultItemHeight) + Max(0, Gutter)
       IN [h EXCEPT ![ShortestColumn(h)] = @ + add]

CalcNextItemPosition(ps, cache, containerWidth) ==
  IF Len(ps) = 0 THEN [left |-> 0, top |-> 0]
  ELSE LET h == ColHeights(ps, Len(ps), ColumnCount(cache, containerWidth))
       IN [left |-> (ShortestColumn(h) - 1) * ColumnWidth(cache), top |-> MinHeight(h)]

\* The forEach of computeLayout over the first n keys: the positions emitted
\* so far and whether the single unknown probe was emitted.
RECURSIVE LayoutPass(_, _, _, _, _)
LayoutPass(keys, n, cache, lastMeasuredKey, containerWidth) ==
  IF n = 0 THEN [positions |-> << >>, unknownRendered |-> FALSE]
  ELSE
    LET acc == LayoutPass(keys, n - 1, cache, lastMeasuredKey, containerWidth)
        key == keys[n]
        at  == CalcNextItemPosition(acc.positions, cache, containerWidth)
        known == CacheHas(cache, key) /\ CacheEntry(cache, key).width # 0
                   /\ CacheEntry(cache, key).height # 0
    IN IF known
         THEN LET e == CacheEntry(cache, key)
                  updateStage ==
                    IF lastMeasuredKey = key /\ e.stage = "measured" THEN "moved" ELSE "placed"
              IN [acc EXCEPT !.positions =
                    Append(@, Position(key, updateStage, Len(acc.positions),
                                       at.left, at.top, e.width, e.height))]
         ELSE IF ~acc.unknownRendered
           THEN [positions |-> Append(acc.positions,
                                 Position(key, "unknown", Len(acc.positions), at.left, at.top, 0, 0)),
                 unknownRendered |-> TRUE]
           ELSE acc

\* A layout that emits every key without a cached size as unknown.
ComputeLayout_EveryUnknown(keys, cache, lastMeasuredKey, containerWidth) ==
  [i \in 1 .. Len(keys) |->
     IF CacheHas(cache, keys[i])
       THEN Position(keys[i], "placed", i - 1, 0, (i - 1) * 100,
                     CacheEntry(cache, keys[i]).width, CacheEntry(cache, keys[i]).height)
       ELSE Position(keys[i], "unknown", i - 1, 0, (i - 1) * 100, 0, 0)]

\* A layout that emits no key without a cached size.
ComputeLayout_KnownOnly(keys, cache, lastMeasuredKey, containerWidth) ==
  SelectSeq(LayoutPass(keys, Len(keys), cache, lastMeasuredKey, containerWidth).positions,
            LAMBDA p : p.stage # "unknown")

ComputeLayout(keys, cache, lastMeasuredKey, containerWidth) ==
  LayoutPass(keys, Len(keys), cache, lastMeasuredKey, containerWidth).positions

PosKeys(ps) == [i \in 1 .. Len(ps) |-> ps[i].key]

\* getPositionIndex of useDrag: positions.findIndex(p => p.key === key)
GetPositionIndex(ps, key) == KeyIndex(PosKeys(ps), key)

\* shiftPositions that exchanges the two keys instead of moving one.
ShiftPositions_Swap(lay, cache, from, to, containerWidth) ==
  LET newKeys == [i \in 1 .. Len(lay.keys) |->
                    IF lay.keys[i] = from THEN to
                    ELSE IF lay.keys[i] = to THEN from ELSE lay.keys[i]]
  IN [keys |-> newKeys, positions |-> ComputeLayout(newKeys, cache, "", containerWidth)]

\* shiftPositions: the new internal key list and position list.  lay is
\* [keys, positions]; the result is unchanged when nothing is tracked or a
\* key is missing from the key list; a key missing from the position list
\* leaves the key list moved and the positions as they were.
ShiftPositions(lay, cache, from, to, containerWidth) ==
  IF Len(lay.positions) = 0 THEN lay
  ELSE
    LET fromIndex == KeyIndex(lay.keys, from)
        toIndex == KeyIndex(lay.keys, to)
    IN IF fromIndex = -1 \/ toIndex = -1 THEN lay
       ELSE
         LET newKeys == SpliceIn(RemoveAt(lay.keys, fromIndex), toIndex, from)
             fromPosIndex == GetPositionIndex(lay.positions, from)
             toPosIndex == GetPositionIndex(lay.positions, to)
         IN IF fromPosIndex = -1 \/ toPosIndex = -1
              THEN [lay EXCEPT !.keys = newKeys]
              ELSE [keys |-> newKeys,
                    positions |-> ComputeLayout(newKeys, cache, "", containerWidth)]

\* confirmItemSize: upsert the size cache and recompute; nothing happens
\* when the key has no position.
ConfirmItemSize(lay, cache, width, height, key, stage, containerWidth) ==
  IF GetPositionIndex(lay.positions, key) < 0 THEN [lay |-> lay, cache |-> cache]
  ELSE
    LET entry == [key |-> key, width |-> width, height |-> height, stage |-> stage]
        newCache ==
          IF CacheHas(cache, key)
            THEN [i \in 1 .. Len(cache) |-> IF cache[i].key = key THEN entry ELSE cache[i]]
            ELSE Append(cache, entry)
    IN [lay |-> [lay EXCEPT !.positions = ComputeLayout(lay.keys, newCache, key, containerWidth)],
        cache |-> newCache]


\* ------------------------------------------------------------------ state

VARIABLES
  dragHandleSelector,    \* a drag handle selector is configured (prop)
  containers,            \* the mounted containers
  childrenProp,          \* the keys of the children prop the consumer renders, per container
  orderedChildren,       \* useChildOrder: the keys of the ordered children, per container
  keysRef,               \* useSequentialLayout: keysRef.current
  layoutRef,             \* useSequentialLayout: layoutRef.current.positions
  itemSizeCache,         \* useSequentialLayout: itemSizeCache.current.pairs
  positions,             \* the positions array of the container's last render
  dragState,             \* useReducer(dragReducer) state, per container
  longPressTimerRef,     \* longPressTimerRef.current is set
  timerPending,          \* the long-press timeout is scheduled; with the closure of its handleMouseDown
  initialPressCoordsRef,
  potentialDragKeyRef,
  initialPressKeyRef,
  cursorPosRef,
  lastTargetKeyRef,
  frameRequest,          \* frameRequest.current is set, the closure of the requested frame
                         \* and the number of frame callbacks requested and not yet run
  cloneRef,              \* cloneRef.current: a clone id, 0 for null
  clones,                \* the drag clone elements: their data attributes
  body,                  \* the clones attached to document.body, in document order
  transitionListeners,   \* <<clone, container>>: a transitionend listener of cleanupDragClone
  cleanupTimers,         \* pending fallback timeouts of cleanupDragClone, per container
  pointerDown,           \* the pointer is pressed
  pointer,               \* where the pointer is
  event,                 \* the document-level event being delivered
  presses,               \* pointer-down events so far
  moves,                 \* pointer-move events so far
  movedLog,              \* calls of onMovedEvent since the last pointer-down
  clickLog,              \* calls of onItemClick since the last pointer-down
  press,                 \* what happened since the last pointer-down (observation only)
  childOrder,            \* a useChildOrder hook on its own: its state and its last call
  layout,                \* a useSequentialLayout hook on its own: its refs and its last call
  virtual,               \* a useVirtualScroll hook on its own: its arguments, container and state
  reducer,               \* dragReducer on its own: the state, the action and the state returned
  autoScroll             \* a useAutoScroll hook on its own: its container, its props and its state

\* The state of the mounted Sentereige containers.
mainVars ==
  << dragHandleSelector, gutter, props, pressLimit, containers, childrenProp, orderedChildren, keysRef, layoutRef, itemSizeCache,
     positions, dragState, longPressTimerRef, timerPending, initialPressCoordsRef,
     potentialDragKeyRef, initialPressKeyRef, cursorPosRef, lastTargetKeyRef, frameRequest,
     cloneRef, clones, body, transitionListeners, cleanupTimers, pointerDown, pointer,
     event, presses, moves, movedLog, clickLog, press >>

\* The state of the hooks exercised on their own.
unitVars == << childOrder, layout, virtual, reducer, autoScroll >>

vars == << mainVars, unitVars >>

configVars == << dragHandleSelector, gutter, props, pressLimit, containers, childrenProp >>
layoutVars == << orderedChildren, keysRef, layoutRef, itemSizeCache, positions >>
pressRefs == << longPressTimerRef, timerPending, initialPressCoordsRef, potentialDragKeyRef,
                initialPressKeyRef >>
cloneVars == << cloneRef, clones, body, transitionListeners, cleanupTimers >>

NoClone ==
  [cloneId |-> Null, groupId |-> Null, sourceId |-> Null, sourceIndex |-> -1,
   offset |-> <<0, 0>>, key |-> Null, state |-> Null]

NoFrame ==
  [pending |-> FALSE, callbacks |-> 0, p |-> NoPoint, draggingId |-> Null, positions |-> << >>]
NoTimer == [pending |-> FALSE, positions |-> << >>]
NoEvent == [type |-> "none", p |-> NoPoint, todo |-> {}]

NoPress ==
  [c |-> Null, key |-> Null, at |-> NoPoint, draggable |-> FALSE, moved |-> FALSE,
   firstMove |-> -1, reach |-> 0, fired |-> FALSE, started |-> FALSE, startIndex |-> -1,
   shifts |-> 0, lastShiftTo |-> Null, adoptions |-> 0, adoptedBy |-> Null,
   adoptedAt |-> -1, released |-> FALSE, destC |-> Null, destIndex |-> -1]

\* A layout in which every child was measured and placed.
PlacedCache(keys) ==
  [i \in 1 .. Len(keys) |->
     [key |-> keys[i], width |-> MeasuredSize(keys[i]).width,
      height |-> MeasuredSize(keys[i]).height, stage |-> "placed"]]

\* No hook is exercised on its own.
NoChildOrder ==
  [orderedChildren |-> << >>, orderedKeys |-> << >>, op |-> "none", children |-> << >>,
   raised |-> FALSE]
NoLayout ==
  [keys |-> << >>, positions |-> << >>, cache |-> << >>, containerWidth |-> 0,
   op |-> "none", computed |-> FALSE]
NoVirtual ==
  [positions |-> << >>, itemCount |-> 0, buffer |-> 0, isScrolling |-> FALSE, scrollTop |-> 0,
   viewportHeight |-> 0, visibleRange |-> [scrollTop |-> 0, start |-> 0, end |-> 0],
   op |-> "none"]
NoReducer == [before |-> InitialDragState, action |-> [type |-> "none"], state |-> InitialDragState]
NoMoveFrame == [pending |-> FALSE, y |-> 0]
NoScrollState == [isNearTop |-> FALSE, isNearBottom |-> FALSE, speed |-> 0]
NoAutoScroll ==
  [container |-> FALSE, top |-> 0, bottom |-> 0, scrollTop |-> 0, scrollHeight |-> 0,
   clientHeight |-> 0, scrollThreshold |-> 0, scrollSpeed |-> 0, y |-> 0, scrollState |-> NoScrollState,
   clone |-> "none", frame |-> NoMoveFrame, op |-> "none"]
UnitIdle ==
  /\ childOrder = NoChildOrder /\ layout = NoLayout /\ virtual = NoVirtual
  /\ reducer = NoReducer /\ autoScroll = NoAutoScroll

\* Every container in the group g, with no dragSources prop.
OneGroup == [groupId |-> [c \in Cont |-> "g"], dragSources |-> [c \in Cont |-> << >>]]

InitWith(mounted, children, cache) ==
  /\ dragHandleSelector = TRUE
  /\ containers = mounted
  /\ childrenProp = children
  /\ orderedChildren = children
  /\ keysRef = children
  /\ itemSizeCache = cache
  /\ layoutRef = [c \in Cont |->
                    ComputeLayout(children[c], cache[c], "", ContainerWidth(c))]
  /\ positions = layoutRef
  /\ dragState = [c \in Cont |-> InitialDragState]
  /\ longPressTimerRef = [c \in Cont |-> FALSE]
  /\ timerPending = [c \in Cont |-> NoTimer]
  /\ initialPressCoordsRef = [c \in Cont |-> NoPoint]
  /\ potentialDragKeyRef = [c \in Cont |-> Null]
  /\ initialPressKeyRef = [c \in Cont |-> Null]
  /\ cursorPosRef = [c \in Cont |-> <<0, 0>>]
  /\ lastTargetKeyRef = [c \in Cont |-> Null]
  /\ frameRequest = [c \in Cont |-> NoFrame]
  /\ cloneRef = [c \in Cont |-> 0]
  /\ clones = [i \in CloneIds |-> NoClone]
  /\ body = << >>
  /\ transitionListeners = {}
  /\ cleanupTimers = [c \in Cont |-> 0]
  /\ pointerDown = FALSE
  /\ pointer = <<0, 0>>
  /\ event = NoEvent
  /\ presses = 0
  /\ moves = 0
  /\ movedLog = << >>
  /\ clickLog = << >>
  /\ press = NoPress

\* Two containers of one group, A with x, y, z and B with p, q, once every
\* item was measured and placed.
TwoLists ==
  [c \in Cont |-> IF c = "A" THEN <<"x", "y", "z">>
                  ELSE IF c = "B" THEN <<"p", "q">> ELSE << >>]
Init ==
  /\ gutter = 0
  /\ props = OneGroup
  /\ pressLimit = MaxPresses
  /\ InitWith({"A", "B"}, TwoLists, [c \in Cont |-> PlacedCache(TwoLists[c])])
  /\ UnitIdle

\* Two containers of one group, A with x, y, z and B with no item yet.
ListAndEmpty == [c \in Cont |-> IF c = "A" THEN <<"x", "y", "z">> ELSE << >>]
InitEmptyB ==
  /\ gutter = 0
  /\ props = OneGroup
  /\ pressLimit = MaxPresses
  /\ InitWith({"A", "B"}, ListAndEmpty, [c \in Cont |-> PlacedCache(ListAndEmpty[c])])
  /\ UnitIdle

\* One list container with a, b, c and no other container, while it mounts:
\* a and b were measured and placed, c is the unknown probe of the layout
\* and waits for its measurement.
OneList == [c \in Cont |-> IF c = "A" THEN <<"a", "b", "c">> ELSE << >>]
InitSingle ==
  /\ gutter = 0
  /\ props = OneGroup
  /\ pressLimit = MaxPresses
  /\ InitWith({"A"}, OneList,
              [c \in Cont |-> IF c = "A" THEN PlacedCache(<<"a", "b">>) ELSE << >>])
  /\ UnitIdle

\* One list container with the single item a, measured and placed, in a
\* behaviour that may hold two presses, one after the other.
OneItem == [c \in Cont |-> IF c = "A" THEN <<"a">> ELSE << >>]
InitTwoDrags ==
  /\ gutter = 0
  /\ props = OneGroup
  /\ pressLimit = MaxDrags
  /\ InitWith({"A"}, OneItem, [c \in Cont |-> PlacedCache(OneItem[c])])
  /\ UnitIdle

\* Two containers, A with x and B with p: B is of A's group or of another
\* one, and has no dragSources prop, or one that names A only, or itself.
GroupsAndSources ==
  { [groupId |-> [c \in Cont |-> IF c = "B" THEN gs[1] ELSE "g"],
     dragSources |-> [c \in Cont |-> IF c = "B" THEN gs[2] ELSE << >>]] :
      gs \in { <<"g", << >> >>, <<"h", << >> >>, <<"g", <<"A">> >>, <<"g", <<"B">> >> } }
TwoSingles == [c \in Cont |-> IF c = "A" THEN <<"x">> ELSE IF c = "B" THEN <<"p">> ELSE << >>]
InitProps ==
  /\ gutter = 0
  /\ props \in GroupsAndSources
  /\ pressLimit = MaxPresses
  /\ InitWith({"A", "B"}, TwoSingles, [c \in Cont |-> PlacedCache(TwoSingles[c])])
  /\ UnitIdle

\* One list container with a, b, c, mounted without an id prop, while it
\* mounts: a and b were measured and placed, c waits for its measurement.
NoIdList == [c \in Cont |-> IF c = "N" THEN <<"a", "b", "c">> ELSE << >>]
InitNoId ==
  /\ gutter = 0
  /\ props = OneGroup
  /\ pressLimit = MaxPresses
  /\ InitWith({"N"}, NoIdList,
              [c \in Cont |-> IF c = "N" THEN PlacedCache(<<"a", "b">>) ELSE << >>])
  /\ UnitIdle

\* No container is mounted.
NoContainer == InitWith({}, [c \in Cont |-> << >>], [c \in Cont |-> << >>])

\* ---------------------------------------------------------------- helpers

GetEventCoords(e) == e.p

Dist2(a, b) == (a[1] - b[1]) * (a[1] - b[1]) + (a[2] - b[2]) * (a[2] - b[2])

\* A tolerance test that lets one more pixel pass.
MovedBeyondTolerance_OneMore(a, b) ==
  Dist2(a, b) > (LongPressMoveTolerancePx + 1) * (LongPressMoveTolerancePx + 1)

\* distance > longPressMoveTolerancePx
MovedBeyondTolerance(a, b) ==
  Dist2(a, b) > LongPressMoveTolerancePx * LongPressMoveTolerancePx

\* distance <= longPressMoveTolerancePx
WithinClickTolerance(a, b) ==
  Dist2(a, b) <= LongPressMoveTolerancePx * LongPressMoveTolerancePx

IsOverContainer(p, rect) ==
  p[1] >= rect.left /\ p[1] <= rect.right /\ p[2] >= rect.top /\ p[2] <= rect.bottom

IsPositionHit(p, pos, containerRect, scrollTop) ==
  IF pos.width = 0 \/ pos.height = 0 THEN FALSE
  ELSE LET posLeft == containerRect.left + pos.left
           posRight == posLeft + pos.width
           posTop == containerRect.top + pos.top - scrollTop
           posBottom == posTop + pos.height
       IN p[1] >= posLeft /\ p[1] <= posRight /\ p[2] >= posTop /\ p[2] <= posBottom

\* The positions.forEach of a hit test: the last position hit, 0-based, or -1.
HoveredIndex(ps, p, c) ==
  LET hits == { i \in 1 .. Len(ps) : IsPositionHit(p, ps[i], ContainerRect(c), ScrollTop(c)) }
  IN IF hits = {} THEN -1 ELSE (CHOOSE i \in hits : \A j \in hits : j <= i) - 1

\* itemRefs.current[k] is an element: LayoutViewport renders the children
\* that have a position in the render's positions.
Mounted(c, k) ==
  /\ k \in Range(orderedChildren[c])
  /\ k \in Range(PosKeys(positions[c]))

\* getBoundingClientRect of the rendered item k of c
ItemRect(c, k) ==
  LET pos == positions[c][GetPositionIndex(positions[c], k) + 1]
  IN [left |-> ContainerRect(c).left + pos.left,
      top |-> ContainerRect(c).top + pos.top - ScrollTop(c)]

InBody(cl) == cl \in Range(body)

\* document.querySelector(".drag-clone"): the first clone of the body, 0 for none
QueryClone == IF body = << >> THEN 0 ELSE body[1]

\* A clone that is detached and that no container references is garbage.
Tidy(cls, refs, bd) ==
  [i \in CloneIds |->
     IF i \in Range(bd) \/ \E c \in Cont : refs[c] = i THEN cls[i] ELSE NoClone]

FreeClone(refs, bd) ==
  CHOOSE i \in CloneIds :
    /\ i \notin Range(bd) /\ \A c \in Cont : refs[c] # i
    /\ \A j \in CloneIds : (j \notin Range(bd) /\ \A c \in Cont : refs[c] # j) => i <= j

\* handleItemMoved that ignores the hover index and appends the key.
HandleItemMoved_AtEnd(children, key, hoverOverIndex) == Append(Without(children, key), key)

\* handleItemMoved that filters the key out and forgets to insert it.
HandleItemMoved_NoInsert(children, key, hoverOverIndex) == Without(children, key)

\* handleItemMoved of Sentereige: the new ordered children
HandleItemMoved(children, key, hoverOverIndex) ==
  LET filteredChildren == Without(children, key)
      index == IF hoverOverIndex > Len(filteredChildren)
                 THEN Len(filteredChildren) ELSE hoverOverIndex
  IN InsertAt(filteredChildren, index, key)

\* A handleRemove that drops the first child, whatever its key.
HandleRemove_First(children, keyToRemove) ==
  IF Len(children) > 0 THEN Tail(children) ELSE children

\* A handleRemove that leaves the children as they are.
HandleRemove_Keeps(children, keyToRemove) == children

\* handleRemove of Sentereige: the new ordered children
HandleRemove(children, keyToRemove) == Without(children, keyToRemove)

\* The render that follows updateChildren, with its effects: the render
\* takes the positions the layout holds, the effect of useVirtualScroll asks
\* for another render when it can compute a range, then resetLayout adopts
\* the new keys and recomputes; the second render, if any, sees the result.
PositionsAfterReset(c, newChildren, renderedBefore, atRender, afterReset) ==
  IF /\ Len(atRender) > 0
     /\ Len(newChildren) > 0
     /\ (Len(newChildren) # Len(orderedChildren[c]) \/ atRender # renderedBefore)
    THEN afterReset
    ELSE atRender

ResetLayout(c, newChildren) ==
  ComputeLayout(newChildren, itemSizeCache[c], "", ContainerWidth(c))


\* ------------------------------------------------------- cleanupDragClone

\* cleanup() inside cleanupDragClone, run for container c: detach the clone
\* cloneRef.current names at that moment and clear the reference.
BodyAfterCleanup(c) ==
  IF cloneRef[c] # 0 THEN Without(body, cloneRef[c]) ELSE body

\* The transitionend listeners that remain once the body is bd: a detached
\* element has no transitions.
ListenersOn(ls, bd) == { l \in ls : l[1] \in Range(bd) }

\* cleanupDragClone of container c: what it leaves in cloneRef.current, the
\* listeners and the pending fallback timeouts of c.
CleanupDragClone(c) ==
  IF cloneRef[c] = 0
    THEN [ref |-> 0, listeners |-> transitionListeners, timers |-> cleanupTimers[c]]
  ELSE IF InBody(cloneRef[c])
    THEN [ref |-> cloneRef[c],
          listeners |-> transitionListeners \cup {<<cloneRef[c], c>>},
          timers |-> cleanupTimers[c] + 1]
  ELSE [ref |-> 0, listeners |-> transitionListeners, timers |-> cleanupTimers[c]]

\* The fallback timeout of cleanupDragClone fires for container c.
CleanupTimeout(c) ==
  /\ event.type = "none"
  /\ c \in containers
  /\ cleanupTimers[c] > 0
  /\ cleanupTimers' = [cleanupTimers EXCEPT ![c] = @ - 1]
  /\ body' = BodyAfterCleanup(c)
  /\ cloneRef' = [cloneRef EXCEPT ![c] = 0]
  /\ transitionListeners' = ListenersOn(transitionListeners \ {<<cloneRef[c], c>>}, body')
  /\ clones' = Tidy(clones, cloneRef', body')
  /\ UNCHANGED << unitVars, configVars, layoutVars, dragState, pressRefs, cursorPosRef, lastTargetKeyRef,
                  frameRequest, pointerDown, pointer, event, presses, moves, movedLog, clickLog, press >>

\* The transitionend listener that container c put on clone cl fires.
TransitionEnd(cl, c) ==
  /\ event.type = "none"
  /\ <<cl, c>> \in transitionListeners
  /\ InBody(cl)
  /\ body' = BodyAfterCleanup(c)
  /\ cloneRef' = [cloneRef EXCEPT ![c] = 0]
  /\ transitionListeners' = ListenersOn(transitionListeners \ {<<cl, c>>}, body')
  /\ clones' = Tidy(clones, cloneRef', body')
  /\ UNCHANGED << unitVars, configVars, layoutVars, dragState, pressRefs, cursorPosRef, lastTargetKeyRef,
                  frameRequest, cleanupTimers, pointerDown, pointer, event, presses, moves, movedLog,
                  clickLog, press >>

\* -------------------------------------------------------- handleMouseDown

\* A press that cannot start a drag: a handle selector is configured and the
\* target is outside the handle, or the container is not sortable.
NotDraggable(c, onHandle) == (dragHandleSelector /\ ~onHandle) \/ ~IsSortable(c)

\* Pointer down on the rendered item k of container c at point p; onHandle
\* says whether the target is inside the drag handle.
HandleMouseDown(c, k, p, onHandle) ==
  /\ event.type = "none"
  /\ ~pointerDown
  /\ presses < pressLimit
  /\ c \in containers
  /\ Mounted(c, k)
  /\ IsPositionHit(p, positions[c][GetPositionIndex(positions[c], k) + 1],
                   ContainerRect(c), ScrollTop(c))
  /\ (~dragHandleSelector => onHandle)
  /\ pointerDown' = TRUE
  /\ pointer' = p
  /\ presses' = presses + 1
  /\ UNCHANGED moves
  /\ movedLog' = << >>
  /\ press' = [NoPress EXCEPT !.c = c, !.key = k, !.at = p,
                              !.draggable = ~NotDraggable(c, onHandle)]
  /\ initialPressKeyRef' = [initialPressKeyRef EXCEPT ![c] = k]
  /\ IF NotDraggable(c, onHandle)
       THEN /\ clickLog' = <<k>>
            /\ UNCHANGED << longPressTimerRef, timerPending, initialPressCoordsRef,
                            potentialDragKeyRef, lastTargetKeyRef, cloneVars >>
       ELSE LET cu == CleanupDragClone(c) IN
            /\ clickLog' = << >>
            /\ cloneRef' = [cloneRef EXCEPT ![c] = cu.ref]
            /\ transitionListeners' = cu.listeners
            /\ cleanupTimers' = [cleanupTimers EXCEPT ![c] = cu.timers]
            /\ clones' = Tidy(clones, cloneRef', body)
            /\ body' = body
            /\ lastTargetKeyRef' = [lastTargetKeyRef EXCEPT ![c] = Null]
            /\ initialPressCoordsRef' = [initialPressCoordsRef EXCEPT ![c] = p]
            /\ potentialDragKeyRef' = [potentialDragKeyRef EXCEPT ![c] = k]
            /\ longPressTimerRef' = [longPressTimerRef EXCEPT ![c] = Mounted(c, k)]
            /\ timerPending' = [timerPending EXCEPT ![c] =
                                  IF Mounted(c, k)
                                    THEN [pending |-> TRUE, positions |-> positions[c]]
                                    ELSE NoTimer]
  /\ UNCHANGED << unitVars, configVars, layoutVars, dragState, cursorPosRef, frameRequest, event >>

\* ------------------------------------------------- the long-press timeout

\* The long-press callback's own tolerance check: the distance from the
\* press point to cursorPosRef.current, the point of the last move event.
LongPressMovedTooFar(c) == MovedBeyondTolerance(cursorPosRef[c], initialPressCoordsRef[c])

\* The drag clone createDragClone makes for key of container c.
CreateDragClone(c, key, index, offset) ==
  [cloneId |-> ContainerId(c), groupId |-> GroupId(c), sourceId |-> ContainerId(c),
   sourceIndex |-> index,
   offset |-> offset, key |-> key, state |-> "new"]

LongPressTimer(c) ==
  /\ event.type = "none"
  /\ c \in containers
  /\ timerPending[c].pending
  /\ timerPending' = [timerPending EXCEPT ![c] = NoTimer]
  /\ IF potentialDragKeyRef[c] = Null \/ initialPressCoordsRef[c] = NoPoint
       THEN /\ press' = IF press.c = c THEN [press EXCEPT !.fired = TRUE] ELSE press
            /\ UNCHANGED << longPressTimerRef, initialPressCoordsRef, potentialDragKeyRef,
                            lastTargetKeyRef, cloneVars, dragState, positions >>
       ELSE IF LongPressMovedTooFar(c) \/ ~Mounted(c, potentialDragKeyRef[c])
         THEN /\ press' = IF press.c = c THEN [press EXCEPT !.fired = TRUE] ELSE press
              /\ longPressTimerRef' = [longPressTimerRef EXCEPT ![c] = FALSE]
              /\ initialPressCoordsRef' = [initialPressCoordsRef EXCEPT ![c] = NoPoint]
              /\ potentialDragKeyRef' = [potentialDragKeyRef EXCEPT ![c] = Null]
              /\ UNCHANGED << lastTargetKeyRef, cloneVars, dragState, positions >>
         ELSE LET currentKey == potentialDragKeyRef[c]
                  fromIndex == GetPositionIndex(timerPending[c].positions, currentKey)
                  rect == ItemRect(c, currentKey)
                  offset == << cursorPosRef[c][1] - rect.left, cursorPosRef[c][2] - rect.top >>
                  id == FreeClone(cloneRef, body)
              IN /\ lastTargetKeyRef' = [lastTargetKeyRef EXCEPT ![c] = Null]
                 /\ cloneRef' = [cloneRef EXCEPT ![c] = id]
                 /\ body' = Append(body, id)
                 /\ clones' = Tidy([clones EXCEPT ![id] =
                                      CreateDragClone(c, currentKey, fromIndex, offset)],
                                   cloneRef', body')
                 /\ dragState' = [dragState EXCEPT ![c] = START_DRAG(@, currentKey, offset)]
                 /\ longPressTimerRef' = [longPressTimerRef EXCEPT ![c] = FALSE]
                 /\ initialPressCoordsRef' = [initialPressCoordsRef EXCEPT ![c] = NoPoint]
                 /\ potentialDragKeyRef' = [potentialDragKeyRef EXCEPT ![c] = Null]
                 /\ positions' = [positions EXCEPT ![c] = layoutRef[c]]
                 /\ press' = IF press.c = c
                               THEN [press EXCEPT !.fired = TRUE, !.started = TRUE,
                                       !.startIndex = GetPositionIndex(layoutRef[c], currentKey)]
                               ELSE press
                 /\ UNCHANGED << transitionListeners, cleanupTimers >>
  /\ UNCHANGED << unitVars, configVars, orderedChildren, keysRef, layoutRef, itemSizeCache,
                  initialPressKeyRef, cursorPosRef, frameRequest, pointerDown, pointer, event,
                  presses, moves, movedLog, clickLog >>

\* -------------------------------------------------------- handleMouseMove

\* The clone of cloneRef.current is settling or has no state.
CloneSettling(c) ==
  cloneRef[c] # 0 /\ clones[cloneRef[c]].state \in {"settling", Null}

\* A handleMouseMove that requests a frame for every move event, also while
\* a request is outstanding.
HandleMouseMove_Unthrottled(c, p) ==
  LET kept == [timer |-> timerPending[c], timerRef |-> longPressTimerRef[c],
               coords |-> initialPressCoordsRef[c], key |-> potentialDragKeyRef[c],
               frame |-> frameRequest[c]]
  IN IF longPressTimerRef[c] /\ dragState[c].draggingId = Null
       THEN IF /\ initialPressCoordsRef[c] # NoPoint
               /\ MovedBeyondTolerance(p, initialPressCoordsRef[c])
              THEN [kept EXCEPT !.timer = NoTimer, !.timerRef = FALSE, !.coords = NoPoint,
                                !.key = Null]
              ELSE kept
       ELSE IF ~IsSortable(c) \/ CloneSettling(c)
              THEN kept
              ELSE [kept EXCEPT !.frame =
                      [pending |-> TRUE, callbacks |-> frameRequest[c].callbacks + 1, p |-> p,
                       draggingId |-> dragState[c].draggingId, positions |-> positions[c]]]

\* handleMouseMove of container c for a move event at p: what it leaves in the
\* long-press references and in frameRequest.current.
HandleMouseMove(c, p) ==
  LET kept == [timer |-> timerPending[c], timerRef |-> longPressTimerRef[c],
               coords |-> initialPressCoordsRef[c], key |-> potentialDragKeyRef[c],
               frame |-> frameRequest[c]]
  IN IF longPressTimerRef[c] /\ dragState[c].draggingId = Null
       THEN IF /\ initialPressCoordsRef[c] # NoPoint
               /\ MovedBeyondTolerance(p, initialPressCoordsRef[c])
              THEN [kept EXCEPT !.timer = NoTimer, !.timerRef = FALSE, !.coords = NoPoint,
                                !.key = Null]
              ELSE kept
       ELSE IF frameRequest[c].pending \/ ~IsSortable(c) \/ CloneSettling(c)
              THEN kept
              ELSE [kept EXCEPT !.frame =
                      [pending |-> TRUE, callbacks |-> frameRequest[c].callbacks + 1, p |-> p,
                       draggingId |-> dragState[c].draggingId, positions |-> positions[c]]]

\* A pointer move reaches the document: the mousemove (touchmove) listener of
\* every mounted container handles it.  The listeners touch disjoint state,
\* so their order does not show.
PointerMove(p) ==
  /\ event.type = "none"
  /\ moves < MaxMoves
  /\ moves' = moves + 1
  /\ pointer' = p
  /\ cursorPosRef' = [c \in Cont |-> IF c \in containers THEN p ELSE cursorPosRef[c]]
  /\ timerPending' =
       [c \in Cont |-> IF c \in containers THEN HandleMouseMove(c, p).timer ELSE timerPending[c]]
  /\ longPressTimerRef' =
       [c \in Cont |-> IF c \in containers THEN HandleMouseMove(c, p).timerRef
                       ELSE longPressTimerRef[c]]
  /\ initialPressCoordsRef' =
       [c \in Cont |-> IF c \in containers THEN HandleMouseMove(c, p).coords
                       ELSE initialPressCoordsRef[c]]
  /\ potentialDragKeyRef' =
       [c \in Cont |-> IF c \in containers THEN HandleMouseMove(c, p).key
                       ELSE potentialDragKeyRef[c]]
  /\ frameRequest' =
       [c \in Cont |-> IF c \in containers THEN HandleMouseMove(c, p).frame ELSE frameRequest[c]]
  /\ press' = IF pointerDown /\ press.key # Null
                THEN [press EXCEPT !.moved = TRUE,
                        !.firstMove = IF @ = -1 /\ ~press.fired THEN Dist2(p, press.at) ELSE @,
                        !.reach = IF press.fired THEN @ ELSE Max(@, Dist2(p, press.at))]
                ELSE press
  /\ UNCHANGED << unitVars, configVars, layoutVars, dragState, initialPressKeyRef, lastTargetKeyRef,
                  cloneVars, pointerDown, event, presses, movedLog, clickLog >>

\* ------------------------------------- the animation frame of handleMouseMove

\* "dragged OUT": this container's clone is attached and tagged with
\* another container's id.
DraggedOut(c) ==
  cloneRef[c] # 0 /\ InBody(cloneRef[c]) /\ clones[cloneRef[c]].cloneId # ContainerId(c)

\* "dragging WITHIN": the closure's drag state and positions know the clone.
DraggingWithin(c, clone) ==
  /\ clones[clone].key # Null
  /\ clones[clone].groupId = GroupId(c)
  /\ frameRequest[c].draggingId # Null
  /\ \E i \in 1 .. Len(frameRequest[c].positions) :
       \/ frameRequest[c].positions[i].key = frameRequest[c].draggingId
       \/ frameRequest[c].positions[i].key = clones[clone].key

\* "dragging FROM another container INTO this one"
DraggingInto(c, clone) ==
  clones[clone].key # Null /\ clones[clone].cloneId # ContainerId(c)

\* A guard that forgets the dragSources prop.
AcceptsCrossDrag_AnySource(c, clone, p) ==
  /\ IsOverContainer(p, ContainerRect(c))
  /\ clones[clone].groupId = GroupId(c)
  /\ clones[clone].cloneId # ContainerId(c)
  /\ clones[clone].state = "active"

\* The conditions for accepting a cross-container drag.
AcceptsCrossDrag(c, clone, p) ==
  /\ IsOverContainer(p, ContainerRect(c))
  /\ clones[clone].groupId = GroupId(c)
  /\ clones[clone].cloneId # ContainerId(c)
  /\ clones[clone].state = "active"
  /\ ~(Len(DragSources(c)) > 0 /\ ContainerId(c) \notin Range(DragSources(c)))

\* updateChildren followed by the render and its effects, for container c.
UpdateChildren(c, newChildren) ==
  /\ orderedChildren' = [orderedChildren EXCEPT ![c] = newChildren]
  /\ keysRef' = [keysRef EXCEPT ![c] = newChildren]
  /\ layoutRef' = [layoutRef EXCEPT ![c] = ResetLayout(c, newChildren)]
  /\ positions' = [positions EXCEPT ![c] =
                     PositionsAfterReset(c, newChildren, positions[c], layoutRef[c],
                                         ResetLayout(c, newChildren))]
  /\ UNCHANGED itemSizeCache

\* A render of container c with nothing else changed.
Render(c) ==
  /\ positions' = [positions EXCEPT ![c] = layoutRef[c]]
  /\ UNCHANGED << orderedChildren, keysRef, layoutRef, itemSizeCache >>

Saturate(n) == IF n < 2 THEN n + 1 ELSE n

\* A reorder test that forgets the last reorder target.
IsNewReorderTarget_EveryHover(c, hoveredPositionIndex, draggingId, dragOverId) ==
  /\ hoveredPositionIndex # -1
  /\ draggingId # dragOverId

\* "If an item is hovered, and it's a new target, perform reordering."
IsNewReorderTarget(c, hoveredPositionIndex, draggingId, dragOverId) ==
  /\ hoveredPositionIndex # -1
  /\ draggingId # dragOverId
  /\ lastTargetKeyRef[c] # dragOverId

Frame(c) ==
  /\ event.type = "none"
  /\ c \in containers
  /\ frameRequest[c].callbacks > 0
  /\ frameRequest' = [frameRequest EXCEPT ![c] =
                        [NoFrame EXCEPT !.callbacks = frameRequest[c].callbacks - 1]]
  /\ LET p == frameRequest[c].p
         clone == QueryClone
         draggingId == frameRequest[c].draggingId
     IN
     IF DraggedOut(c) THEN
       /\ UpdateChildren(c, HandleRemove(orderedChildren[c], clones[cloneRef[c]].key))
       /\ cloneRef' = [cloneRef EXCEPT ![c] = 0]
       /\ clones' = Tidy(clones, cloneRef', body)
       /\ dragState' = [dragState EXCEPT ![c] = END_DRAG(@)]
       /\ lastTargetKeyRef' = [lastTargetKeyRef EXCEPT ![c] = Null]
       /\ UNCHANGED << cursorPosRef, press >>
     ELSE IF clone = 0 THEN
       UNCHANGED << layoutVars, cloneRef, clones, dragState, lastTargetKeyRef, cursorPosRef,
                    press >>
     ELSE IF DraggingWithin(c, clone) THEN
       LET hoveredPositionIndex == HoveredIndex(frameRequest[c].positions, p, c)
           dragOverId == IF hoveredPositionIndex = -1 THEN Null
                         ELSE frameRequest[c].positions[hoveredPositionIndex + 1].key
           shifted == ShiftPositions([keys |-> keysRef[c], positions |-> layoutRef[c]],
                                     itemSizeCache[c], draggingId, dragOverId, ContainerWidth(c))
       IN
       /\ clones' = IF clones[clone].state = "new" /\ cloneRef[c] # 0
                      THEN [clones EXCEPT ![cloneRef[c]].state = "active"]
                      ELSE clones
       /\ IF IsNewReorderTarget(c, hoveredPositionIndex, draggingId, dragOverId)
            THEN /\ keysRef' = [keysRef EXCEPT ![c] = shifted.keys]
                 /\ layoutRef' = [layoutRef EXCEPT ![c] = shifted.positions]
                 /\ positions' = [positions EXCEPT ![c] = shifted.positions]
                 /\ lastTargetKeyRef' = [lastTargetKeyRef EXCEPT ![c] = dragOverId]
                 /\ dragState' = [dragState EXCEPT ![c] = UPDATE_DRAG(@, draggingId, dragOverId)]
                 /\ cursorPosRef' = [cursorPosRef EXCEPT ![c] = p]
                 /\ press' = [press EXCEPT !.shifts = Saturate(@), !.lastShiftTo = dragOverId]
                 /\ UNCHANGED << orderedChildren, itemSizeCache >>
            ELSE /\ Render(c)
                 /\ dragState' = [dragState EXCEPT ![c].dragOverId = dragOverId]
                 /\ UNCHANGED << lastTargetKeyRef, cursorPosRef, press >>
       /\ UNCHANGED cloneRef
     ELSE IF DraggingInto(c, clone) THEN
       IF ~AcceptsCrossDrag(c, clone, p) THEN
         UNCHANGED << layoutVars, cloneRef, clones, dragState, lastTargetKeyRef, cursorPosRef,
                      press >>
       ELSE
         LET hit == HoveredIndex(frameRequest[c].positions, p, c)
             hoverOverIndex == IF hit = -1 THEN 0 ELSE hit
         IN
         /\ cloneRef' = [cloneRef EXCEPT ![c] = clone]
         /\ clones' = Tidy([clones EXCEPT ![clone].cloneId = ContainerId(c)], cloneRef', body)
         /\ UpdateChildren(c, HandleItemMoved(orderedChildren[c], clones[clone].key,
                                              hoverOverIndex))
         /\ dragState' = [dragState EXCEPT ![c] =
                            CROSS_DRAG(@, clones[clone].key, Null, clones[clone].offset)]
         /\ press' = [press EXCEPT !.adoptions = Saturate(@),
                        !.adoptedBy = IF press.adoptions = 0 THEN c ELSE @,
                        !.adoptedAt = IF press.adoptions = 0 THEN hoverOverIndex ELSE @]
         /\ UNCHANGED << lastTargetKeyRef, cursorPosRef >>
     ELSE
       /\ Render(c)
       /\ UNCHANGED << cloneRef, clones, dragState, lastTargetKeyRef, cursorPosRef, press >>
  /\ UNCHANGED << unitVars, configVars, pressRefs, body, transitionListeners, cleanupTimers, pointerDown,
                  pointer, event, presses, moves, movedLog, clickLog >>

\* ---------------------------------------------------------- handleMouseUp

\* The container that holds the active drag of the pressed key: its drag
\* state names the key and the clone it references carries its tag.
HoldsDrag(c) ==
  /\ press.key # Null
  /\ dragState[c].draggingId = press.key
  /\ cloneRef[c] # 0
  /\ clones[cloneRef[c]].cloneId = ContainerId(c)

\* The event with container c's listener done.
Delivered(c) ==
  IF event.todo = {c} THEN NoEvent ELSE [event EXCEPT !.todo = @ \ {c}]

\* A release at point p reaches the document: every mounted container's
\* listener will handle it.  The release event carries its own coordinates,
\* which need not be those of the last move event.
PointerUp(p) ==
  /\ event.type = "none"
  /\ pointerDown
  /\ pointerDown' = FALSE
  /\ pointer' = p
  /\ event' = [type |-> "up", p |-> p, todo |-> containers]
  /\ press' =
       IF \E c \in containers : HoldsDrag(c)
         THEN LET c == CHOOSE d \in containers : HoldsDrag(d)
              IN [press EXCEPT !.released = TRUE, !.destC = c,
                               !.destIndex = GetPositionIndex(layoutRef[c], press.key)]
         ELSE [press EXCEPT !.released = TRUE]
  /\ UNCHANGED << unitVars, configVars, layoutVars, dragState, pressRefs, cursorPosRef, lastTargetKeyRef,
                  frameRequest, cloneVars, presses, moves, movedLog, clickLog >>

\* A click test that does not look at the distance of the release.
IsClick_AnyDistance(c) ==
  /\ dragState[c].draggingId = Null
  /\ initialPressCoordsRef[c] # NoPoint
  /\ initialPressKeyRef[c] # Null

\* The click test of handleMouseUp; an onItemClick callback is configured.
IsClick(c) ==
  /\ dragState[c].draggingId = Null
  /\ initialPressCoordsRef[c] # NoPoint
  /\ initialPressKeyRef[c] # Null
  /\ WithinClickTolerance(GetEventCoords(event), initialPressCoordsRef[c])

\* A release that notifies without testing for an actual change.
MoveNotification_Always(c) ==
  << <<clones[cloneRef[c]].key, clones[cloneRef[c]].sourceId, clones[cloneRef[c]].sourceIndex,
       ContainerId(c), GetPositionIndex(positions[c], clones[cloneRef[c]].key)>> >>

\* The onMovedEvent call of a release in container c, if it makes one.
MoveNotification(c) ==
  LET current == clones[cloneRef[c]]
      toIndex == GetPositionIndex(positions[c], current.key)
  IN IF /\ current.key # Null
        /\ toIndex > -1
        /\ (ContainerId(c) # current.sourceId \/ current.sourceIndex # toIndex)
       THEN << <<current.key, current.sourceId, current.sourceIndex, ContainerId(c), toIndex>> >>
       ELSE << >>

HandleMouseUp(c) ==
  /\ event.type = "up"
  /\ c \in event.todo
  /\ event' = Delivered(c)
  /\ longPressTimerRef' = [longPressTimerRef EXCEPT ![c] = FALSE]
  /\ timerPending' = [timerPending EXCEPT ![c] = IF longPressTimerRef[c] THEN NoTimer ELSE @]
  /\ potentialDragKeyRef' = [potentialDragKeyRef EXCEPT ![c] = Null]
  /\ clickLog' = IF IsClick(c) THEN Append(clickLog, initialPressKeyRef[c]) ELSE clickLog
  /\ initialPressCoordsRef' = [initialPressCoordsRef EXCEPT ![c] = NoPoint]
  /\ initialPressKeyRef' = [initialPressKeyRef EXCEPT ![c] = Null]
  /\ frameRequest' = [frameRequest EXCEPT ![c] =
                        IF @.pending THEN [NoFrame EXCEPT !.callbacks = frameRequest[c].callbacks - 1]
                        ELSE @]
  /\ LET settling == IF cloneRef[c] # 0
                       THEN [clones EXCEPT ![cloneRef[c]].state = "settling"]
                       ELSE clones
         draggingId == dragState[c].draggingId
     IN
     IF draggingId = Null \/ cloneRef[c] = 0 THEN
       /\ clones' = settling
       /\ dragState' = [dragState EXCEPT ![c] = SETTLE_DRAG(@)]
       /\ Render(c)
       /\ UNCHANGED << cloneRef, body, transitionListeners, cleanupTimers, lastTargetKeyRef,
                       movedLog >>
     ELSE IF clones[cloneRef[c]].cloneId # ContainerId(c) THEN
       /\ clones' = settling
       /\ dragState' = [dragState EXCEPT ![c] = SETTLE_DRAG(@)]
       /\ UpdateChildren(c, HandleRemove(orderedChildren[c], draggingId))
       /\ UNCHANGED << cloneRef, body, transitionListeners, cleanupTimers, lastTargetKeyRef,
                       movedLog >>
     ELSE IF ~Mounted(c, draggingId) THEN
       /\ body' = Without(body, cloneRef[c])
       /\ cloneRef' = [cloneRef EXCEPT ![c] = 0]
       /\ transitionListeners' = ListenersOn(transitionListeners, body')
       /\ clones' = Tidy(settling, cloneRef', body')
       /\ lastTargetKeyRef' = [lastTargetKeyRef EXCEPT ![c] = Null]
       /\ dragState' = [dragState EXCEPT ![c] = SETTLE_DRAG(@)]
       /\ Render(c)
       /\ UNCHANGED << cleanupTimers, movedLog >>
     ELSE
       LET cu == CleanupDragClone(c) IN
       /\ movedLog' = movedLog \o MoveNotification(c)
       /\ cloneRef' = [cloneRef EXCEPT ![c] = cu.ref]
       /\ transitionListeners' = cu.listeners
       /\ cleanupTimers' = [cleanupTimers EXCEPT ![c] = cu.timers]
       /\ clones' = Tidy(settling, cloneRef', body)
       /\ dragState' = [dragState EXCEPT ![c] = END_DRAG(SETTLE_DRAG(@))]
       /\ lastTargetKeyRef' = [lastTargetKeyRef EXCEPT ![c] = Null]
       /\ Render(c)
       /\ UNCHANGED body
  /\ UNCHANGED << unitVars, configVars, cursorPosRef, pointerDown, pointer, presses, moves, press >>

\* ------------------------------------------- LayoutItem's ResizeObserver

\* The stage LayoutItem reports for the rendered item k of c, Null when the
\* observer has nothing new to report.
ReportedStage(c, k) ==
  LET pos == positions[c][GetPositionIndex(positions[c], k) + 1]
  IN IF pos.stage = "unknown" /\ ~CacheHas(itemSizeCache[c], k) THEN "measured"
     ELSE IF /\ pos.stage = "moved"
             /\ CacheHas(itemSizeCache[c], k)
             /\ CacheEntry(itemSizeCache[c], k).stage = "measured" THEN "placed"
     ELSE Null

Measure(c, k) ==
  /\ event.type = "none"
  /\ c \in containers
  /\ Mounted(c, k)
  /\ ReportedStage(c, k) # Null
  /\ LET r == ConfirmItemSize([keys |-> keysRef[c], positions |-> layoutRef[c]],
                              itemSizeCache[c], MeasuredSize(k).width, MeasuredSize(k).height,
                              k, ReportedStage(c, k), ContainerWidth(c))
     IN /\ layoutRef' = [layoutRef EXCEPT ![c] = r.lay.positions]
        /\ itemSizeCache' = [itemSizeCache EXCEPT ![c] = r.cache]
  /\ UNCHANGED << unitVars, configVars, orderedChildren, keysRef, positions, dragState, pressRefs,
                  cursorPosRef, lastTargetKeyRef, frameRequest, cloneVars, pointerDown, pointer,
                  event, presses, moves, movedLog, clickLog, press >>

\* ------------------------------------------------------- useVirtualScroll

\* updateVisibleRange (the container's scroll listener or resize observer)
\* sets the visible range: the container renders again and shows the
\* positions the layout holds by then.
UpdateVisibleRange(c) ==
  /\ event.type = "none"
  /\ c \in containers
  /\ positions[c] # layoutRef[c]
  /\ Len(layoutRef[c]) > 0
  /\ Len(orderedChildren[c]) > 0
  /\ Render(c)
  /\ UNCHANGED << unitVars, configVars, dragState, pressRefs, cursorPosRef, lastTargetKeyRef,
                  frameRequest, cloneVars, pointerDown, pointer, event, presses, moves, movedLog,
                  clickLog, press >>

\* ---------------------------------------------------------- specification

Next ==
  \/ \E c \in Cont, k \in Keys, p \in Points, onHandle \in BOOLEAN :
       HandleMouseDown(c, k, p, onHandle)
  \/ \E c \in Cont : LongPressTimer(c)
  \/ \E p \in Points : PointerMove(p)
  \/ \E c \in Cont : Frame(c)
  \/ \E p \in Points : PointerUp(p)
  \/ \E c \in Cont : HandleMouseUp(c)
  \/ \E c \in Cont, k \in Keys : Measure(c, k)
  \/ \E c \in Cont : UpdateVisibleRange(c)
  \/ \E c \in Cont : CleanupTimeout(c)
  \/ \E c \in Cont, cl \in CloneIds : TransitionEnd(cl, c)

Spec == Init /\ [][Next]_vars

SpecSingle == InitSingle /\ [][Next]_vars

SpecEmptyB == InitEmptyB /\ [][Next]_vars

SpecNoId == InitNoId /\ [][Next]_vars

\* The steps of a container whose items are all measured and placed and
\* that receives no new item: nothing is left to measure.
NextMeasured ==
  \/ \E c \in Cont, k \in Keys, p \in Points, onHandle \in BOOLEAN :
       HandleMouseDown(c, k, p, onHandle)
  \/ \E c \in Cont : LongPressTimer(c)
  \/ \E p \in Points : PointerMove(p)
  \/ \E c \in Cont : Frame(c)
  \/ \E p \in Points : PointerUp(p)
  \/ \E c \in Cont : HandleMouseUp(c)
  \/ \E c \in Cont : CleanupTimeout(c)
  \/ \E c \in Cont, cl \in CloneIds : TransitionEnd(cl, c)

SpecTwoDrags == InitTwoDrags /\ [][NextMeasured]_vars

SpecProps == InitProps /\ [][Next]_vars

\* The consumer renders again and passes a new children array with the keys
\* it passed before, in the same order: the children effect of Sentereige
\* calls updateChildren, and the orderedChildren effect resets the layout.
ParentRerender(c) ==
  /\ event.type = "none"
  /\ c \in containers
  /\ UpdateChildren(c, childrenProp[c])
  /\ UNCHANGED << unitVars, configVars, dragState, pressRefs, cursorPosRef, lastTargetKeyRef,
                  frameRequest, cloneVars, pointerDown, pointer, event, presses, moves, movedLog,
                  clickLog, press >>

\* One list container with x, y, z, every item measured and placed, whose
\* consumer may render again at any moment.
OneMeasuredList == [c \in Cont |-> IF c = "A" THEN <<"x", "y", "z">> ELSE << >>]
InitRerender ==
  /\ gutter = 0
  /\ props = OneGroup
  /\ pressLimit = MaxPresses
  /\ InitWith({"A"}, OneMeasuredList, [c \in Cont |-> PlacedCache(OneMeasuredList[c])])
  /\ UnitIdle

NextRerender ==
  \/ NextMeasured
  \/ \E c \in Cont : ParentRerender(c)

SpecRerender == InitRerender /\ [][NextRerender]_vars

\* A pointer position between the two containers, outside both.
OutsidePoints == { <<150, 150>> }

\* Two containers of one group, A with x and B with p, and a pointer that
\* may also move to, and be released at, a position outside both.
InitOutside ==
  /\ gutter = 0
  /\ props = OneGroup
  /\ pressLimit = MaxPresses
  /\ InitWith({"A", "B"}, TwoSingles, [c \in Cont |-> PlacedCache(TwoSingles[c])])
  /\ UnitIdle

NextOutside ==
  \/ Next
  \/ \E p \in OutsidePoints : PointerMove(p)
  \/ \E p \in OutsidePoints : PointerUp(p)

SpecOutside == InitOutside /\ [][NextOutside]_vars

\* ------------------------------------------------------------ useChildOrder
\* The hook on its own, given any children: a child is written as its key,
\* Null for a child with no key.

MaxChildren == 3

\* The children arrays a parent can pass.
ChildrenArrays ==
  UNION { [1 .. n -> {"a", "b", Null}] : n \in 0 .. MaxChildren }

\* children.map(c => c.key).filter(key => key !== null && key !== undefined)
NonNullKeys(children) == SelectSeq(children, LAMBDA k : k # Null)

\* A uniqueness test that finds every list unique.
UniqueKeys_Always(keys) == TRUE

\* uniqueKeys.size === keys.length
UniqueKeys(keys) == Cardinality(Range(keys)) = Len(keys)

\* The useState initialisers of the first render.
InitialChildOrder(children) ==
  IF Len(children) = 0
    THEN [orderedChildren |-> << >>, orderedKeys |-> << >>, raised |-> FALSE]
    ELSE IF ~UniqueKeys(NonNullKeys(children))
      THEN [orderedChildren |-> << >>, orderedKeys |-> << >>, raised |-> TRUE]
      ELSE [orderedChildren |-> children, orderedKeys |-> NonNullKeys(children),
            raised |-> FALSE]

\* The body shared by the children effect and updateChildren: the state
\* after setOrderedChildren and setOrderedKeys, or the old state and a throw.
SetChildren(state, newChildren) ==
  IF Len(newChildren) = 0
    THEN [orderedChildren |-> << >>, orderedKeys |-> << >>, raised |-> FALSE]
    ELSE IF ~UniqueKeys(NonNullKeys(newChildren))
      THEN [orderedChildren |-> state.orderedChildren, orderedKeys |-> state.orderedKeys,
            raised |-> TRUE]
      ELSE [orderedChildren |-> newChildren, orderedKeys |-> NonNullKeys(newChildren),
            raised |-> FALSE]

\* What the hook holds after operation op was given children.
Called(result, op, children) ==
  [orderedChildren |-> result.orderedChildren, orderedKeys |-> result.orderedKeys,
   op |-> op, children |-> children, raised |-> result.raised]

InitChildOrder ==
  /\ NoContainer
  /\ gutter = 0
  /\ props = OneGroup
  /\ pressLimit = MaxPresses
  /\ layout = NoLayout
  /\ virtual = NoVirtual
  /\ reducer = NoReducer
  /\ autoScroll = NoAutoScroll
  /\ \E children \in ChildrenArrays :
       childOrder = Called(InitialChildOrder(children), "mount", children)

\* The children prop changed: the effect of useChildOrder runs.
ChildrenChanged(children) ==
  /\ childOrder.op # "none"
  /\ ~childOrder.raised
  /\ childOrder' = Called(SetChildren(childOrder, children), "effect", children)
  /\ UNCHANGED << mainVars, layout, virtual, reducer, autoScroll >>

\* A call of updateChildren.
CallUpdateChildren(newChildren) ==
  /\ childOrder.op # "none"
  /\ ~childOrder.raised
  /\ childOrder' = Called(SetChildren(childOrder, newChildren), "updateChildren", newChildren)
  /\ UNCHANGED << mainVars, layout, virtual, reducer, autoScroll >>

NextChildOrder ==
  \/ \E children \in ChildrenArrays : ChildrenChanged(children)
  \/ \E newChildren \in ChildrenArrays : CallUpdateChildren(newChildren)

SpecChildOrder == InitChildOrder /\ [][NextChildOrder]_vars

\* ------------------------------------------------------ useSequentialLayout
\* The hook on its own, under any sequence of calls of resetLayout,
\* confirmItemSize and shiftPositions.

LayoutKeys == {"a", "b", "c"}
ItemWidth == 100
ItemHeights == {100}
\* A container 205 wide holds two columns of items 100 wide with no gutter
\* and one column with a gutter of 10.
ContainerWidths == {205}
Gutters == {0, 10}

\* The orderedKeys a useChildOrder hook can expose: no key twice.
KeyLists ==
  { ks \in UNION { [1 .. n -> LayoutKeys] : n \in 0 .. Cardinality(LayoutKeys) } :
      \A i, j \in 1 .. Len(ks) : i # j => ks[i] # ks[j] }

\* The first render: keysRef holds the orderedKeys, nothing is laid out.
InitLayout ==
  /\ NoContainer
  /\ childOrder = NoChildOrder
  /\ virtual = NoVirtual
  /\ reducer = NoReducer
  /\ autoScroll = NoAutoScroll
  /\ gutter \in Gutters
  /\ props = OneGroup
  /\ pressLimit = MaxPresses
  /\ \E orderedKeys \in KeyLists, w \in ContainerWidths :
       layout = [keys |-> orderedKeys, positions |-> << >>, cache |-> << >>,
                 containerWidth |-> w, op |-> "mount", computed |-> FALSE]

\* resetLayout, the orderedKeys prop being orderedKeys.
CallResetLayout(orderedKeys) ==
  /\ layout.op # "none"
  /\ layout' = [layout EXCEPT
                  !.keys = orderedKeys,
                  !.positions = ComputeLayout(orderedKeys, layout.cache, "",
                                              layout.containerWidth),
                  !.op = "resetLayout", !.computed = TRUE]
  /\ UNCHANGED << mainVars, childOrder, virtual, reducer, autoScroll >>

\* The stage LayoutItem passes for an item laid out with stage st.
StageToConfirm(st) == IF st = "unknown" THEN "measured" ELSE "placed"

\* confirmItemSize(width, height, key, stage), called by the rendered item
\* of key.
CallConfirmItemSize(height, key) ==
  /\ layout.op # "none"
  /\ LET at == GetPositionIndex(layout.positions, key)
         stage == StageToConfirm(IF at < 0 THEN "unknown" ELSE layout.positions[at + 1].stage)
         r == ConfirmItemSize([keys |-> layout.keys, positions |-> layout.positions],
                              layout.cache, ItemWidth, height, key, stage,
                              layout.containerWidth)
     IN layout' = [layout EXCEPT
                     !.keys = r.lay.keys, !.positions = r.lay.positions, !.cache = r.cache,
                     !.op = "confirmItemSize",
                     !.computed = \E i \in 1 .. Len(layout.positions) :
                                     layout.positions[i].key = key]
  /\ UNCHANGED << mainVars, childOrder, virtual, reducer, autoScroll >>

\* What confirmItemSize(width, height, key, stage) returns, as a list of at
\* most one entry: nothing when the key has no position, else the entry
\* that the recomputed position list holds at the index the key had before
\* the call, if it has one.
ReturnedByConfirmItemSize(height, key) ==
  LET index == GetPositionIndex(layout.positions, key)
      stage == StageToConfirm(IF index < 0 THEN "unknown" ELSE layout.positions[index + 1].stage)
      r == ConfirmItemSize([keys |-> layout.keys, positions |-> layout.positions],
                           layout.cache, ItemWidth, height, key, stage,
                           layout.containerWidth)
  IN IF index < 0 \/ index + 1 > Len(r.lay.positions) THEN << >>
     ELSE << r.lay.positions[index + 1] >>

\* shiftPositions(from, to)
CallShiftPositions(from, to) ==
  /\ layout.op # "none"
  /\ LET r == ShiftPositions([keys |-> layout.keys, positions |-> layout.positions],
                             layout.cache, from, to, layout.containerWidth)
     IN layout' = [layout EXCEPT
                     !.keys = r.keys, !.positions = r.positions,
                     !.op = "shiftPositions",
                     !.computed = /\ {from, to} \subseteq Range(layout.keys)
                                  /\ \E i \in 1 .. Len(layout.positions) :
                                       layout.positions[i].key = from
                                  /\ \E i \in 1 .. Len(layout.positions) :
                                       layout.positions[i].key = to]
  /\ UNCHANGED << mainVars, childOrder, virtual, reducer, autoScroll >>

NextLayout ==
  \/ \E orderedKeys \in KeyLists : CallResetLayout(orderedKeys)
  \/ \E h \in ItemHeights, key \in LayoutKeys : CallConfirmItemSize(h, key)
  \/ \E from \in LayoutKeys, to \in LayoutKeys : CallShiftPositions(from, to)

SpecLayout == InitLayout /\ [][NextLayout]_vars

\* ------------------------------------------------------ dragReducer alone
\* The reducer applied to any drag state and any action of its type.

DragIds == {"item1", "item2"}
DragOffsets == {<<0, 0>>, <<10, 20>>}
DragStates ==
  [dragOverId : DragIds \cup {Null}, draggingId : DragIds \cup {Null}, dragOffset : DragOffsets]

InitReducer ==
  /\ NoContainer
  /\ gutter = 0
  /\ props = OneGroup
  /\ pressLimit = MaxPresses
  /\ childOrder = NoChildOrder
  /\ layout = NoLayout
  /\ virtual = NoVirtual
  /\ autoScroll = NoAutoScroll
  /\ \E state \in DragStates :
       reducer = [before |-> state, action |-> [type |-> "none"], state |-> state]

\* dragReducer(state, action), with the action and the returned state kept.
Reduced(action, state) ==
  /\ reducer' = [before |-> reducer.state, action |-> action, state |-> state]
  /\ UNCHANGED << mainVars, childOrder, layout, virtual, autoScroll >>

DispatchStartDrag(draggingId, dragOffset) ==
  Reduced([type |-> "START_DRAG", draggingId |-> draggingId, dragOffset |-> dragOffset],
          START_DRAG(reducer.state, draggingId, dragOffset))

DispatchCrossDrag(draggingId, dragOverId, dragOffset) ==
  Reduced([type |-> "CROSS_DRAG", draggingId |-> draggingId, dragOverId |-> dragOverId,
           dragOffset |-> dragOffset],
          CROSS_DRAG(reducer.state, draggingId, dragOverId, dragOffset))

DispatchUpdateDrag(draggingId, dragOverId) ==
  Reduced([type |-> "UPDATE_DRAG", draggingId |-> draggingId, dragOverId |-> dragOverId],
          UPDATE_DRAG(reducer.state, draggingId, dragOverId))

DispatchEndDrag == Reduced([type |-> "END_DRAG"], END_DRAG(reducer.state))

DispatchSettleDrag == Reduced([type |-> "SETTLE_DRAG"], SETTLE_DRAG(reducer.state))

DispatchUnrecognised == Reduced([type |-> "unrecognised"], DefaultCase(reducer.state))

NextReducer ==
  \/ \E id \in DragIds, offset \in DragOffsets : DispatchStartDrag(id, offset)
  \/ \E id \in DragIds, over \in DragIds, offset \in DragOffsets :
       DispatchCrossDrag(id, over, offset)
  \/ \E id \in DragIds \cup {Null}, over \in DragIds \cup {Null} : DispatchUpdateDrag(id, over)
  \/ DispatchEndDrag
  \/ DispatchSettleDrag
  \/ DispatchUnrecognised

SpecReducer == InitReducer /\ [][NextReducer]_vars

\* ------------------------------------------------------ useAutoScroll alone
\* Lengths are in pixels; speeds are in thousandths of a pixel per frame,
\* proximities in thousandths, both truncated.

AutoScrollProximityPower == 3
AutoScrollMinSpeedOffsetPerMille == 100

\* proximity ** n, in thousandths
RECURSIVE PowerPerMille(_, _)
PowerPerMille(q, n) == IF n = 0 THEN 1000 ELSE (PowerPerMille(q, n - 1) * q) \div 1000

\* Math.min(distanceFromEdge / scrollThreshold, 1): a division by zero is
\* Infinity, which the minimum turns into 1.
Proximity(distanceFromEdge, scrollThreshold) ==
  IF scrollThreshold = 0 \/ distanceFromEdge >= scrollThreshold THEN 1000
  ELSE (distanceFromEdge * 1000) \div scrollThreshold

\* baseSpeed + autoScrollMinSpeedOffsetMultiplier * maxScrollSpeed
EdgeSpeed(distanceFromEdge, scrollThreshold, scrollSpeed) ==
  LET maxScrollSpeed == 50 * scrollSpeed
      baseSpeed ==
        maxScrollSpeed * PowerPerMille(Proximity(distanceFromEdge, scrollThreshold),
                                       AutoScrollProximityPower)
  IN baseSpeed + AutoScrollMinSpeedOffsetPerMille * maxScrollSpeed

\* The scroll state updateScrollState sets for a pointer at height y.
UpdatedScrollState(a, y) ==
  IF ~a.container THEN NoScrollState
  ELSE IF a.scrollHeight <= a.clientHeight THEN NoScrollState
  ELSE
    LET topThreshold == a.top + a.scrollThreshold
        bottomThreshold == a.bottom - a.scrollThreshold
    IN IF y < topThreshold /\ a.scrollTop > 0
         THEN [isNearTop |-> TRUE, isNearBottom |-> FALSE,
               speed |-> -EdgeSpeed(topThreshold - y, a.scrollThreshold, a.scrollSpeed)]
       ELSE IF y > bottomThreshold /\ a.scrollTop < a.scrollHeight - a.clientHeight
         THEN [isNearTop |-> FALSE, isNearBottom |-> TRUE,
               speed |-> EdgeSpeed(y - bottomThreshold, a.scrollThreshold, a.scrollSpeed)]
       ELSE NoScrollState

ContainerTops == {0, 100}
ClientHeights == {400, 1000}
ScrollHeights == {400, 2000}
ScrollThresholds == {100, 300}
ScrollSpeeds == {2}
PointerYs ==
  {-50, 0, 50, 100, 150, 200, 250, 300, 350, 400, 500, 600, 700, 950, 1000, 1100, 1150}
ScrollTopsOf(a) == {0, (Max(0, a.scrollHeight - a.clientHeight)) \div 2,
                    Max(0, a.scrollHeight - a.clientHeight)}

\* The hook after its first render, in a container that is or is not
\* mounted yet.
InitAutoScroll ==
  /\ NoContainer
  /\ gutter = 0
  /\ props = OneGroup
  /\ pressLimit = MaxPresses
  /\ childOrder = NoChildOrder
  /\ layout = NoLayout
  /\ virtual = NoVirtual
  /\ reducer = NoReducer
  /\ \E top \in ContainerTops, ch \in ClientHeights, sh \in ScrollHeights,
        t \in ScrollThresholds, sp \in ScrollSpeeds, mounted \in BOOLEAN :
       autoScroll = [container |-> mounted, top |-> top, bottom |-> top + ch, scrollTop |-> 0,
                     scrollHeight |-> sh, clientHeight |-> ch, scrollThreshold |-> t,
                     scrollSpeed |-> sp, y |-> 0, scrollState |-> NoScrollState,
                     clone |-> "none", frame |-> NoMoveFrame, op |-> "mount"]

\* updateScrollState(e) for a pointer event at height y.
UpdateScrollState(y) ==
  /\ autoScroll.op # "none"
  /\ autoScroll' = [autoScroll EXCEPT !.y = y, !.scrollState = UpdatedScrollState(autoScroll, y),
                                      !.op = "updateScrollState"]
  /\ UNCHANGED << mainVars, childOrder, layout, virtual, reducer >>

\* The container is scrolled to top.
ScrolledTo(top) ==
  /\ autoScroll.op # "none"
  /\ autoScroll.container
  /\ top \in ScrollTopsOf(autoScroll)
  /\ top # autoScroll.scrollTop
  /\ autoScroll' = [autoScroll EXCEPT !.scrollTop = top, !.op = "scroll"]
  /\ UNCHANGED << mainVars, childOrder, layout, virtual, reducer >>

NextAutoScroll ==
  \/ \E y \in PointerYs : UpdateScrollState(y)
  \/ \E top \in 0 .. 1600 : ScrolledTo(top)

SpecAutoScroll == InitAutoScroll /\ [][NextAutoScroll]_vars

\* ------------------------------------- useAutoScroll driven by one useDrag
\* One sortable, scrollable container: the drag clone of its hook (none,
\* active or settling), the pending pointer-move frame, and the scroll loop
\* of useAutoScroll.  Reordering and the other containers are left out.

ScrollRange == 200
DragPointerYs == {50, 200, 350, 500, 950}

InitDragScroll ==
  /\ NoContainer
  /\ gutter = 0
  /\ props = OneGroup
  /\ pressLimit = MaxPresses
  /\ childOrder = NoChildOrder
  /\ layout = NoLayout
  /\ virtual = NoVirtual
  /\ reducer = NoReducer
  /\ \E ch \in ClientHeights, t \in ScrollThresholds, sp \in ScrollSpeeds :
       autoScroll = [container |-> TRUE, top |-> 0, bottom |-> ch, scrollTop |-> 0,
                     scrollHeight |-> ch + ScrollRange, clientHeight |-> ch,
                     scrollThreshold |-> t,
                     scrollSpeed |-> sp, y |-> 0, scrollState |-> NoScrollState,
                     clone |-> "none", frame |-> NoMoveFrame, op |-> "mount"]

DragScrollStep(next) ==
  /\ autoScroll.op # "none"
  /\ autoScroll' = next
  /\ UNCHANGED << mainVars, childOrder, layout, virtual, reducer >>

\* The long press timer fires: the clone is created and START_DRAG dispatched.
DragStarted ==
  /\ autoScroll.clone = "none"
  /\ DragScrollStep([autoScroll EXCEPT !.clone = "active", !.op = "startDrag"])

\* handleMouseMove for a pointer at height y: nothing while a frame is
\* requested or the clone of this hook settles, else a frame is requested.
MouseMoved(y) ==
  /\ ~autoScroll.frame.pending
  /\ autoScroll.clone # "settling"
  /\ DragScrollStep([autoScroll EXCEPT !.frame = [pending |-> TRUE, y |-> y],
                                        !.op = "handleMouseMove"])

\* The frame callback: without a clone in the document it returns early,
\* with the clone of this hook it ends in updateScrollState(e).
MoveFrame ==
  /\ autoScroll.frame.pending
  /\ DragScrollStep(
       IF autoScroll.clone = "none"
         THEN [autoScroll EXCEPT !.frame = NoMoveFrame, !.op = "frame"]
         ELSE [autoScroll EXCEPT
                 !.frame = NoMoveFrame, !.y = autoScroll.frame.y,
                 !.scrollState = UpdatedScrollState(autoScroll, autoScroll.frame.y),
                 !.op = "updateScrollState"])

\* handleMouseUp while the drag is active: the clone settles, the requested
\* frame is cancelled, cleanupDragClone starts; the scroll state is not
\* touched.
MouseReleased ==
  /\ autoScroll.clone = "active"
  /\ DragScrollStep([autoScroll EXCEPT !.clone = "settling", !.frame = NoMoveFrame,
                                        !.op = "handleMouseUp"])

\* The transition of the settling clone ends, or the fallback timer fires.
CloneCleanedUp ==
  /\ autoScroll.clone = "settling"
  /\ DragScrollStep([autoScroll EXCEPT !.clone = "none", !.op = "cleanup"])

\* scrollLoop: one animation frame of the loop of the effect, which runs
\* while the speed is not 0; scrollBy keeps the position within its range.
ScrollLoop ==
  /\ autoScroll.scrollState.speed # 0
  /\ LET maxTop == autoScroll.scrollHeight - autoScroll.clientHeight
         by == IF autoScroll.scrollState.speed < 0
                 THEN -((-autoScroll.scrollState.speed) \div 1000)
                 ELSE autoScroll.scrollState.speed \div 1000
         to == autoScroll.scrollTop + by
     IN DragScrollStep([autoScroll EXCEPT
                          !.scrollTop = IF to < 0 THEN 0 ELSE IF to > maxTop THEN maxTop ELSE to,
                          !.op = "scrollBy"])

NextDragScroll ==
  \/ DragStarted
  \/ \E y \in DragPointerYs : MouseMoved(y)
  \/ MoveFrame
  \/ MouseReleased
  \/ CloneCleanedUp
  \/ ScrollLoop

SpecDragScroll == InitDragScroll /\ [][NextDragScroll]_vars

\* Animation frames and timers that are due do run.
SpecDragScrollFair ==
  /\ SpecDragScroll
  /\ WF_vars(MoveFrame) /\ WF_vars(CloneCleanedUp) /\ WF_vars(ScrollLoop)

\* ------------------------------------------- the layout engine's columns
\* A list of up to MaxItems items of one height, measured one after the
\* other as the layout shows them, in one to three columns.

MaxItems == 8
ColumnKeys == [i \in 1 .. MaxItems |-> ToString(i)]
EqualHeights == {50, 100}
ColumnContainerWidths == {100, 205, 320}

\* The hook after the first render and its resetLayout effect.
InitColumns ==
  /\ NoContainer
  /\ childOrder = NoChildOrder
  /\ virtual = NoVirtual
  /\ reducer = NoReducer
  /\ autoScroll = NoAutoScroll
  /\ gutter \in Gutters
  /\ props = OneGroup
  /\ pressLimit = MaxPresses
  /\ \E n \in 1 .. MaxItems, w \in ColumnContainerWidths :
       layout = [keys |-> SubSeq(ColumnKeys, 1, n),
                 positions |-> ComputeLayout(SubSeq(ColumnKeys, 1, n), << >>, "", w),
                 cache |-> << >>, containerWidth |-> w, op |-> "resetLayout",
                 computed |-> TRUE]

\* The item shown with stage unknown reports its size, of height h.
MeasureProbe(h) ==
  /\ layout.op # "none"
  /\ \E i \in 1 .. Len(layout.positions) : layout.positions[i].stage = "unknown"
  /\ Len(layout.cache) > 0 => h = layout.cache[1].height
  /\ LET probe == CHOOSE i \in 1 .. Len(layout.positions) : layout.positions[i].stage = "unknown"
         r == ConfirmItemSize([keys |-> layout.keys, positions |-> layout.positions],
                              layout.cache, ItemWidth, h, layout.positions[probe].key,
                              StageToConfirm("unknown"), layout.containerWidth)
     IN layout' = [layout EXCEPT
                     !.positions = r.lay.positions, !.cache = r.cache,
                     !.op = "confirmItemSize", !.computed = TRUE]
  /\ UNCHANGED << mainVars, childOrder, virtual, reducer, autoScroll >>

NextColumns == \E h \in EqualHeights : MeasureProbe(h)

SpecColumns == InitColumns /\ [][NextColumns]_vars

\* ------------------------------------------ the layout engine's placement
\* A list of up to MaxPlaced items of different heights, with a positive,
\* no or a negative gutter, measured one after the other as the layout
\* shows them; the last item may have been measured before the others were
\* put in front of it.

MaxPlaced == 5
PlacementHeights == {50, 100}
PlacementGutters == {-5, 0, 10}

\* The hook after a render and its resetLayout effect.
InitPlacement ==
  /\ NoContainer
  /\ childOrder = NoChildOrder
  /\ virtual = NoVirtual
  /\ reducer = NoReducer
  /\ autoScroll = NoAutoScroll
  /\ gutter \in PlacementGutters
  /\ props = OneGroup
  /\ pressLimit = MaxPresses
  /\ \E n \in 1 .. MaxPlaced, w \in ColumnContainerWidths :
       \E cache \in { << >> } \cup
                     { << [key |-> ColumnKeys[n], width |-> ItemWidth, height |-> h,
                           stage |-> "placed"] >> : h \in PlacementHeights } :
         layout = [keys |-> SubSeq(ColumnKeys, 1, n),
                   positions |-> ComputeLayout(SubSeq(ColumnKeys, 1, n), cache, "", w),
                   cache |-> cache, containerWidth |-> w, op |-> "resetLayout",
                   computed |-> TRUE]

\* The item shown with stage unknown reports its size, of height h.
MeasureUnknown(h) ==
  /\ layout.op # "none"
  /\ \E i \in 1 .. Len(layout.positions) : layout.positions[i].stage = "unknown"
  /\ LET probe == CHOOSE i \in 1 .. Len(layout.positions) : layout.positions[i].stage = "unknown"
         r == ConfirmItemSize([keys |-> layout.keys, positions |-> layout.positions],
                              layout.cache, ItemWidth, h, layout.positions[probe].key,
                              StageToConfirm("unknown"), layout.containerWidth)
     IN layout' = [layout EXCEPT
                     !.positions = r.lay.positions, !.cache = r.cache,
                     !.op = "confirmItemSize", !.computed = TRUE]
  /\ UNCHANGED << mainVars, childOrder, virtual, reducer, autoScroll >>

SpecPlacement == InitPlacement /\ [][\E h \in PlacementHeights : MeasureUnknown(h)]_vars

\* --------------------------------------------------- useVirtualScroll alone
\* The visible range as updateVisibleRange computes it.  Indexes are
\* 0-based as in the code; an entry of stage unknown has no height.

Min(a, b) == IF a <= b THEN a ELSE b

\* positions[i] exists
HasPosition(ps, i) == i >= 0 /\ i < Len(ps)

\* position.height !== undefined
HasHeight(p) == p.stage # "unknown"

\* findFirstVisible(0, scrollPos)
FindFirstVisible(ps, itemCount, scrollPos) ==
  LET found == { i \in 0 .. (itemCount - 1) :
                   /\ HasPosition(ps, i) /\ HasHeight(ps[i + 1])
                   /\ ps[i + 1].top + ps[i + 1].height > scrollPos }
  IN IF found = {} THEN itemCount - 1
     ELSE CHOOSE i \in found : \A j \in found : i <= j

\* findLastVisible(0, scrollPos)
FindLastVisible(ps, itemCount, scrollPos) ==
  LET found == { i \in 0 .. (itemCount - 1) : HasPosition(ps, i) /\ ps[i + 1].top > scrollPos }
  IN IF found = {} THEN itemCount - 1
     ELSE CHOOSE i \in found : \A j \in found : i <= j

\* The first binary search: startIdx when its loop ends.
RECURSIVE FirstVisibleSearch(_, _, _, _, _, _)
FirstVisibleSearch(ps, itemCount, scrollTop, scrollBottom, startIdx, endIdx) ==
  IF startIdx > endIdx THEN startIdx
  ELSE
    LET mid == (startIdx + endIdx) \div 2 IN
    IF ~HasPosition(ps, mid) \/ ~HasHeight(ps[mid + 1])
      THEN FindFirstVisible(ps, itemCount, scrollTop)
    ELSE
      LET itemTop == ps[mid + 1].top
          itemBottom == ps[mid + 1].top + ps[mid + 1].height
      IN IF itemBottom > scrollTop /\ itemTop < scrollBottom
           THEN FirstVisibleSearch(ps, itemCount, scrollTop, scrollBottom, startIdx, mid - 1)
         ELSE IF itemBottom <= scrollTop
           THEN FirstVisibleSearch(ps, itemCount, scrollTop, scrollBottom, mid + 1, endIdx)
         ELSE FirstVisibleSearch(ps, itemCount, scrollTop, scrollBottom, startIdx, mid - 1)

\* The second binary search: firstInvisibleIdx when its loop ends.
RECURSIVE FirstInvisibleSearch(_, _, _, _, _, _)
FirstInvisibleSearch(ps, itemCount, scrollBottom, low, high, firstInvisibleIdx) ==
  IF low > high THEN firstInvisibleIdx
  ELSE
    LET mid == (low + high) \div 2 IN
    IF ~HasPosition(ps, mid) THEN FindLastVisible(ps, itemCount, scrollBottom)
    ELSE IF ps[mid + 1].top > scrollBottom
      THEN FirstInvisibleSearch(ps, itemCount, scrollBottom, low, mid - 1, mid)
      ELSE FirstInvisibleSearch(ps, itemCount, scrollBottom, mid + 1, high, firstInvisibleIdx)

\* The object updateVisibleRange passes to setVisibleRange.
ComputeVisibleRange(ps, itemCount, buffer, scrollTop, viewportHeight) ==
  LET scrollBottom == scrollTop + viewportHeight
      found == FirstVisibleSearch(ps, itemCount, scrollTop, scrollBottom, 0, itemCount - 1)
      startIdx == Max(0, Max(0, Min(found, itemCount - 1) - buffer))
      firstInvisibleIdx ==
        FirstInvisibleSearch(ps, itemCount, scrollBottom, 0, itemCount - 1, itemCount)
      endIdx == Min(itemCount - 1, Min(firstInvisibleIdx + buffer - 1, Len(ps)))
  IN [scrollTop |-> scrollTop,
      start |-> IF scrollTop <= 0 THEN 0 ELSE startIdx,
      end |-> endIdx + 1]

\* updateVisibleRange of a hook in state v: the visibleRange it leaves.
UpdatedVisibleRange(v) ==
  IF v.isScrolling \/ Len(v.positions) = 0 \/ v.itemCount = 0
    THEN v.visibleRange
    ELSE ComputeVisibleRange(v.positions, v.itemCount, v.buffer, v.scrollTop, v.viewportHeight)

\* The position tables the layout engine produces for the keys a, b, c in
\* one or two columns: h gives each key its measured height, 0 for a key
\* not measured yet.
TableHeights == {0, 100, 300}
TableOf(h, w) ==
  LET ks == <<"a", "b", "c">>
      cache == [i \in 1 .. 3 |->
                  [key |-> ks[i], width |-> ItemWidth, height |-> h[ks[i]], stage |-> "placed"]]
  IN ComputeLayout(ks, SelectSeq(cache, LAMBDA e : e.height # 0), "", w)
Tables == { TableOf(h, w) : h \in [LayoutKeys -> TableHeights], w \in {100, 205} }

ScrollTops == {0, 50, 150, 250}
ViewportHeights == {100, 200}
Buffers == {0, 1}
\* The item counts the hook is given: up to one more than the table holds.
ItemCounts == 0 .. 4

\* The hook after its first render and its effect: useState's initial range,
\* then updateVisibleRange.
InitVirtual ==
  /\ NoContainer
  /\ gutter = 0
  /\ props = OneGroup
  /\ pressLimit = MaxPresses
  /\ childOrder = NoChildOrder
  /\ layout = NoLayout
  /\ reducer = NoReducer
  /\ autoScroll = NoAutoScroll
  /\ \E ps \in Tables, n \in ItemCounts, b \in Buffers, vh \in ViewportHeights :
       LET v == [positions |-> ps, itemCount |-> n, buffer |-> b, isScrolling |-> FALSE,
                 scrollTop |-> 0, viewportHeight |-> vh,
                 visibleRange |-> [scrollTop |-> 0, start |-> 0, end |-> Min(Len(ps), n - 1) + 1],
                 op |-> "mount"]
       IN virtual = [v EXCEPT !.visibleRange = UpdatedVisibleRange(v)]

\* The container is scrolled to top: the scroll listener's animation frame
\* runs updateVisibleRange.
Scroll(top) ==
  /\ virtual.op # "none"
  /\ top # virtual.scrollTop
  /\ LET v == [virtual EXCEPT !.scrollTop = top, !.op = "scroll"]
     IN virtual' = [v EXCEPT !.visibleRange = UpdatedVisibleRange(v)]
  /\ UNCHANGED << mainVars, childOrder, layout, reducer, autoScroll >>

\* The hook is rendered with another item count: its effect runs
\* updateVisibleRange.
ItemCountChanged(n) ==
  /\ virtual.op # "none"
  /\ n # virtual.itemCount
  /\ LET v == [virtual EXCEPT !.itemCount = n, !.op = "itemCount"]
     IN virtual' = [v EXCEPT !.visibleRange = UpdatedVisibleRange(v)]
  /\ UNCHANGED << mainVars, childOrder, layout, reducer, autoScroll >>

\* The hook is rendered with the first len entries of its position table.
PositionsShrunk(len) ==
  /\ virtual.op # "none"
  /\ len < Len(virtual.positions)
  /\ LET v == [virtual EXCEPT !.positions = SubSeq(@, 1, len), !.op = "positions"]
     IN virtual' = [v EXCEPT !.visibleRange = UpdatedVisibleRange(v)]
  /\ UNCHANGED << mainVars, childOrder, layout, reducer, autoScroll >>

\* useScrollState reports that scrolling started or stopped.
ScrollingChanged ==
  /\ virtual.op # "none"
  /\ LET v == [virtual EXCEPT !.isScrolling = ~@, !.op = "isScrolling"]
     IN virtual' = [v EXCEPT !.visibleRange = UpdatedVisibleRange(v)]
  /\ UNCHANGED << mainVars, childOrder, layout, reducer, autoScroll >>

NextVirtual ==
  \/ \E top \in ScrollTops : Scroll(top)
  \/ \E n \in ItemCounts : ItemCountChanged(n)
  \/ \E len \in 0 .. 2 : PositionsShrunk(len)
  \/ ScrollingChanged

SpecVirtual == InitVirtual /\ [][NextVirtual]_vars

\* ------------------------------------------------------------ properties

\* The release of the last press was handled by every container.
ReleaseDone == press.released /\ event.type = "none"

\* In the first gesture x was long-press-dragged from A, B adopted it once, over its item at
\* index 1, and the pointer was released over that place.
DraggedFromAToB ==
  /\ presses = 1
  /\ press.c = "A" /\ press.key = "x" /\ press.started
  /\ press.adoptions = 1 /\ press.adoptedBy = "B" /\ press.adoptedAt = 1
  /\ pointer = <<250, 150>>
  /\ ReleaseDone

\* C1: two containers A [x,y,z] and B [p,q] of one group; x is
\* long-press-dragged from A, enters B over B's item at index 1 and is
\* released there.  Once both containers handled the release, A's order is
\* [y,z], B's order is [p,x,q] and onMovedEvent was called exactly once, with
\* (x, A, 0, B, 1).
C1_CrossContainerMove ==
  DraggedFromAToB =>
    /\ orderedChildren["A"] = <<"y", "z">>
    /\ orderedChildren["B"] = <<"p", "x", "q">>
    /\ movedLog = << <<"x", "A", 0, "B", 1>> >>

C1_Witness ==
  /\ DraggedFromAToB
  /\ movedLog = << <<"x", "A", 0, "B", 1>> >>
  /\ orderedChildren["B"] = <<"p", "x", "q">>


\* The drag of the last press was active when the pointer was released, and
\* the release was handled by every container.
ActiveDragReleased == ReleaseDone /\ press.started /\ press.destC # Null

\* C3: every release of an active drag whose destination container or index
\* differs from its source container or index calls onMovedEvent exactly
\* once over all containers, with the key, the source container and index and
\* the destination container and index.
C3_OneNotificationPerMove ==
  (/\ ActiveDragReleased
   /\ (press.destC # press.c \/ press.destIndex # press.startIndex))
    => movedLog = << <<press.key, press.c, press.startIndex, press.destC, press.destIndex>> >>


\* In the first gesture a was long-press-dragged, its last reorder put it on c's position, and the
\* release was handled.
DraggedAOntoC ==
  /\ containers = {"A"} /\ presses = 1
  /\ press.key = "a" /\ press.started /\ press.lastShiftTo = "c"
  /\ ReleaseDone

\* C4: in a single list container [a,b,c] with no other container, dragging
\* a onto c's position and releasing yields the layout order [b,c,a] and
\* exactly one onMovedEvent(a, id, 0, id, 2), id being the container's id.
C4_SingleListReorder ==
  DraggedAOntoC =>
    /\ keysRef["A"] = <<"b", "c", "a">>
    /\ PosKeys(layoutRef["A"]) = <<"b", "c", "a">>
    /\ movedLog = << <<"a", "A", 0, "A", 2>> >>

C4_Witness ==
  /\ DraggedAOntoC
  /\ keysRef["A"] = <<"b", "c", "a">>
  /\ movedLog = << <<"a", "A", 0, "A", 2>> >>


\* The active drag was released in the container where it started, with the
\* item at the index it had when the drag started.
ReleasedInPlace ==
  /\ ActiveDragReleased
  /\ press.destC = press.c
  /\ press.destIndex = press.startIndex

\* C5: when an active drag is released in the container where it started and
\* the item's index at release equals its index at drag start, onMovedEvent is
\* not called.
C5_NoChangeNoNotification == ReleasedInPlace => movedLog = << >>

C5_Witness == ReleasedInPlace /\ press.moved /\ movedLog = << >>


\* The last press was on a drag handle and the first pointer move after it,
\* made before the long-press delay elapsed, was tolerance + 1 pixels away
\* from the press point.
MovedJustBeyondTolerance ==
  /\ press.draggable
  /\ press.firstMove = (LongPressMoveTolerancePx + 1) * (LongPressMoveTolerancePx + 1)

\* C6 as stated: a pointer-down on a sortable item followed, before the
\* long-press delay elapses, by a move of tolerance + 1 pixels cancels the
\* pending drag, and the subsequent release calls the click callback.
C6_CancelThenClick ==
  MovedJustBeyondTolerance =>
    /\ ~press.started
    /\ ReleaseDone => clickLog = <<press.key>>

\* C6, amended: such a move cancels the pending drag (no START_DRAG for that
\* press, whatever follows), and the subsequent release does not call the
\* click callback.
C6_CancelAndNoClick ==
  MovedJustBeyondTolerance =>
    /\ ~press.started
    /\ ~timerPending[press.c].pending
    /\ clickLog = << >>

C6_Witness == MovedJustBeyondTolerance /\ ReleaseDone /\ ~press.started /\ clickLog = << >>


\* The long-press timeout of the last press elapses in this step, and since
\* the press there was no pointer move and no release.
StationaryPressTimesOut ==
  /\ press.draggable /\ ~press.moved /\ ~press.released
  /\ ~press.fired /\ press'.fired

\* C7: if the pointer goes down on a sortable, mounted item and neither a
\* move nor a release happens before the long-press delay elapses, then the
\* timer's callback dispatches START_DRAG for the item's key and creates a
\* drag clone, whatever pointer events preceded the press.
C7_StationaryPressStartsDrag ==
  [][StationaryPressTimesOut =>
       /\ dragState'[press.c].draggingId = press.key
       /\ cloneRef'[press.c] # 0
       /\ cloneRef'[press.c] \in Range(body')]_vars

\* The pointer was released before any drag had started, within the
\* tolerance of the press point, and the release was handled.
ReleasedWithinTolerance ==
  /\ press.draggable /\ ~press.started
  /\ WithinClickTolerance(pointer, press.at)
  /\ ReleaseDone

\* C8: when a press on a sortable item is released before any drag has
\* started and the release point is within the tolerance of the press point,
\* the click callback is called exactly once with the pressed key, the
\* long-press timer is cleared and onMovedEvent is not called.
C8_ReleaseWithinToleranceClicks ==
  ReleasedWithinTolerance =>
    /\ clickLog = <<press.key>>
    /\ ~timerPending[press.c].pending /\ ~longPressTimerRef[press.c]
    /\ movedLog = << >>


\* The click callback is called in this step.
ClickCalled ==
  \/ Len(clickLog') > Len(clickLog)
  \/ ~pointerDown /\ pointerDown' /\ clickLog' # << >>

Settled ==
  /\ ReleaseDone
  /\ transitionListeners = {}
  /\ \A c \in containers : ~frameRequest[c].pending /\ cleanupTimers[c] = 0

\* C10: after every release that ends an active drag, whichever branch of the
\* release handler ran, the container dispatches END_DRAG and removes the
\* clone: once nothing is scheduled any more, its drag state is
\* {draggingId: null, dragOverId: null, dragOffset: (0,0)} and no clone
\* element remains.
C10_ReleaseResetsDragState ==
  (press.started /\ Settled) =>
    /\ \A c \in containers : dragState[c] = InitialDragState
    /\ body = << >>


\* The container tag of clone cl names d while the clone started in c.
TagMoved(cl, c, d) ==
  /\ clones[cl].key # Null
  /\ clones[cl].sourceId = c
  /\ clones[cl].cloneId = d

\* C2 as stated: in every state in which the clone's container tag has
\* changed from container A to container B, A's order does not contain the
\* dragged key and B's order contains it exactly once.
C2_TagAndOrdersAgree ==
  \A cl \in CloneIds :
    TagMoved(cl, "A", "B") =>
      /\ Count(orderedChildren["A"], clones[cl].key) = 0
      /\ Count(orderedChildren["B"], clones[cl].key) = 1

\* C2, amended: the step that changes a clone's container tag from c to d puts
\* the dragged key into d's order, exactly once, and leaves c's order as it
\* was, the key still in it; c removes the key later, in its next animation
\* frame or when it handles the release.
C2_AdoptionInsertsOnly ==
  [][\A cl \in CloneIds : \A c, d \in Cont :
       (c # d /\ clones[cl].key # Null /\ clones[cl].cloneId = c
          /\ clones'[cl].key = clones[cl].key /\ clones'[cl].cloneId = d)
         => /\ Count(orderedChildren'[d], clones[cl].key) = 1
            /\ orderedChildren'[c] = orderedChildren[c]
            /\ Count(orderedChildren[c], clones[cl].key) = 1]_vars

\* B adopted the clone of x and A has not handled it yet.
C2_Witness ==
  \E cl \in CloneIds :
    /\ TagMoved(cl, "A", "B")
    /\ cl \in Range(body)
    /\ Count(orderedChildren["A"], "x") = 1
    /\ Count(orderedChildren["B"], "x") = 1

\* C11: onMovedEvent is never called with an unresolved index (negative) or
\* with an unresolved (missing or empty) container id: every logged call has
\* a non-empty source id and destination id and non-negative indices.
C11_MoveDataResolved ==
  \A i \in 1 .. Len(movedLog) :
    /\ movedLog[i][2] \notin {"", Null}
    /\ movedLog[i][4] \notin {"", Null}
    /\ movedLog[i][3] >= 0
    /\ movedLog[i][5] >= 0

\* Two items of the collection share a key.
SharesKey(children) ==
  \E i, j \in 1 .. Len(children) : i < j /\ children[i] # Null /\ children[i] = children[j]

\* C12: for every operation that replaces the ordered collection (initial
\* mount, children prop change, updateChildren), if two items of the new
\* collection share a key the operation raises the error and leaves the
\* orderedChildren and orderedKeys exposed before it unchanged; a mount that
\* raises exposes nothing.
C12_DuplicateKeysRaise ==
  /\ (childOrder.op = "mount" /\ SharesKey(childOrder.children))
       => childOrder.raised /\ childOrder.orderedChildren = << >>
  /\ [][(childOrder'.op \in {"effect", "updateChildren"} /\ SharesKey(childOrder'.children))
        => /\ childOrder'.raised
           /\ childOrder'.orderedChildren = childOrder.orderedChildren
           /\ childOrder'.orderedKeys = childOrder.orderedKeys]_vars

C12_Witness ==
  /\ childOrder.op = "updateChildren" /\ SharesKey(childOrder.children)
  /\ childOrder.raised /\ childOrder.orderedChildren = <<"a", "b">>

\* C13: every update whose collection has an item with a null key raises
\* the error; so in every state the hook exposes, orderedKeys has the length
\* of orderedChildren and is exactly its key list, in order.
C13_KeysAreTheChildrensKeys ==
  /\ (childOrder.op # "none" /\ Null \in Range(childOrder.children)) => childOrder.raised
  /\ Len(childOrder.orderedKeys) = Len(childOrder.orderedChildren)
  /\ \A i \in 1 .. Len(childOrder.orderedKeys) :
       i <= Len(childOrder.orderedChildren)
         => childOrder.orderedKeys[i] = childOrder.orderedChildren[i]

\* The entries of stage unknown in a position list.
UnknownEntries(ps) == { i \in 1 .. Len(ps) : ps[i].stage = "unknown" }

\* Keys of the hook's key list that have no cached size.
Unmeasured == { k \in Range(layout.keys) : \A i \in 1 .. Len(layout.cache) : layout.cache[i].key # k }

\* C14: after any sequence of resetLayout, confirmItemSize and shiftPositions
\* calls, the position list has at most one entry of stage unknown.
C14_AtMostOneUnknown == Cardinality(UnknownEntries(layout.positions)) <= 1

C14_Witness ==
  /\ layout.op = "shiftPositions" /\ layout.computed
  /\ Cardinality(Unmeasured) = 2
  /\ Cardinality(UnknownEntries(layout.positions)) = 1

\* C15 as stated: after every layout computation the keys of the position
\* table are pairwise distinct and are exactly the key list, in order.
C15_PositionsMatchKeys ==
  layout.computed => PosKeys(layout.positions) = layout.keys

\* C15, amended: after every layout computation the keys of the position
\* table are pairwise distinct and are, in the order of the key list, the
\* keys that have a cached size and the first key that has none; the table
\* is the whole key list exactly when at most one key has no cached size.
C15_PositionsAreMeasuredKeysAndProbe ==
  layout.computed =>
    LET shown(n) == \/ layout.keys[n] \notin Unmeasured
                    \/ \A m \in 1 .. (n - 1) : layout.keys[m] \notin Unmeasured
        expected == { n \in 1 .. Len(layout.keys) : shown(n) }
        keysOf == PosKeys(layout.positions)
    IN /\ \A i, j \in 1 .. Len(keysOf) : i # j => keysOf[i] # keysOf[j]
       /\ Len(keysOf) = Cardinality(expected)
       /\ \A i \in 1 .. Len(keysOf) :
            \E n \in expected :
              /\ layout.keys[n] = keysOf[i]
              /\ Cardinality({ m \in expected : m < n }) = i - 1
       /\ (keysOf = layout.keys) <=> (Cardinality(Unmeasured) <= 1)

C15_Witness ==
  /\ layout.computed /\ layout.op = "confirmItemSize"
  /\ Len(layout.keys) = 3 /\ Len(layout.positions) = 2
  /\ Cardinality(Unmeasured) = 2

\* The range was computed by the last call of updateVisibleRange.
RangeComputed ==
  /\ virtual.op # "none"
  /\ ~virtual.isScrolling /\ Len(virtual.positions) > 0 /\ virtual.itemCount > 0

\* C16: for every scroll offset, viewport height, item count, buffer and
\* position table, the range of the virtual window satisfies
\* 0 <= start <= end <= itemCount, also after the item count or the position
\* table shrank.
C16_RangeWithinItemCount ==
  virtual.op # "none" =>
    /\ 0 <= virtual.visibleRange.start
    /\ virtual.visibleRange.start <= virtual.visibleRange.end
    /\ virtual.visibleRange.end <= virtual.itemCount

\* The item at index i (0-based) of the table is measured and its span
\* [top, top + height) meets [scrollTop, scrollTop + viewportHeight].
Intersects(i) ==
  LET p == virtual.positions[i + 1]
  IN /\ HasHeight(p)
     /\ p.top < virtual.scrollTop + virtual.viewportHeight
     /\ p.top + p.height > virtual.scrollTop

\* C17: for every scroll offset and every position table the layout engine
\* produced, every item whose vertical span meets the viewport has its index
\* inside the computed range [start, end).
C17_VisibleItemsInRange ==
  (RangeComputed /\ Len(virtual.positions) = virtual.itemCount) =>
    \A i \in 0 .. (virtual.itemCount - 1) :
      Intersects(i) => virtual.visibleRange.start <= i /\ i < virtual.visibleRange.end

\* The accumulated height of the column at offset left: the heights of the
\* measured items placed there, each with the gutter.
ColumnHeight(left) ==
  LET here == { i \in 1 .. Len(layout.positions) :
                  layout.positions[i].stage # "unknown" /\ layout.positions[i].left = left }
  IN Cardinality(here) * (layout.cache[1].height + Max(0, gutter))

\* The offsets of the columns of the layout.
ColumnLefts ==
  { (c - 1) * (ItemWidth + Max(0, gutter)) :
      c \in 1 .. ColumnCount(layout.cache, layout.containerWidth) }

\* C18: after the layout engine has placed N items of equal height H with
\* gutter G into C columns, no column's accumulated height exceeds the
\* minimum column height by more than H + G (and every item is in one of
\* the C columns).
C18_ColumnsBalanced ==
  Len(layout.cache) > 0 =>
    /\ \A i \in 1 .. Len(layout.positions) : layout.positions[i].left \in ColumnLefts
    /\ \A l, m \in ColumnLefts :
         ColumnHeight(l) - ColumnHeight(m) <= layout.cache[1].height + Max(0, gutter)

C18_Witness ==
  /\ Len(layout.cache) = MaxItems /\ Len(layout.positions) = MaxItems
  /\ Cardinality(ColumnLefts) = 3 /\ gutter = 0
  /\ \E l, m \in ColumnLefts : ColumnHeight(l) - ColumnHeight(m) = layout.cache[1].height

\* C19: from any drag state, START_DRAG and CROSS_DRAG have the same effect:
\* draggingId and dragOffset become the action's values and dragOverId
\* becomes null, whatever the previous state was and whatever dragOverId a
\* CROSS_DRAG action carries.
C19_StartAndCrossDrag ==
  reducer.action.type \in {"START_DRAG", "CROSS_DRAG"} =>
    reducer.state = [dragOverId |-> Null, draggingId |-> reducer.action.draggingId,
                     dragOffset |-> reducer.action.dragOffset]

C19_Witness ==
  /\ reducer.action.type = "CROSS_DRAG"
  /\ reducer.action.dragOverId # Null
  /\ reducer.before.dragOverId # Null
  /\ reducer.before.draggingId # reducer.action.draggingId
  /\ reducer.before.dragOffset # reducer.action.dragOffset
  /\ reducer.state.dragOverId = Null

\* C20: UPDATE_DRAG sets dragOverId and draggingId to the action's values
\* and leaves dragOffset unchanged.
C20_UpdateDrag ==
  reducer.action.type = "UPDATE_DRAG" =>
    reducer.state = [dragOverId |-> reducer.action.dragOverId,
                     draggingId |-> reducer.action.draggingId,
                     dragOffset |-> reducer.before.dragOffset]

C20_Witness ==
  /\ reducer.action.type = "UPDATE_DRAG"
  /\ reducer.before.dragOffset # <<0, 0>>
  /\ reducer.before.dragOverId # reducer.action.dragOverId
  /\ reducer.before.draggingId # reducer.action.draggingId
  /\ reducer.state.dragOffset = reducer.before.dragOffset

\* C21: SETTLE_DRAG sets draggingId to null and leaves dragOverId and
\* dragOffset unchanged.
C21_SettleDrag ==
  reducer.action.type = "SETTLE_DRAG" =>
    reducer.state = [dragOverId |-> reducer.before.dragOverId, draggingId |-> Null,
                     dragOffset |-> reducer.before.dragOffset]

C21_Witness ==
  /\ reducer.action.type = "SETTLE_DRAG"
  /\ reducer.before.draggingId # Null
  /\ reducer.before.dragOverId # Null
  /\ reducer.before.dragOffset # <<0, 0>>
  /\ reducer.state.draggingId = Null

\* C22: from any drag state, END_DRAG and an action of no known type yield
\* {dragOverId: null, draggingId: null, dragOffset: (0, 0)}, the state the
\* drag hook is mounted with, and END_DRAG applied to the result changes
\* nothing.
C22_EndDragResets ==
  reducer.action.type \in {"END_DRAG", "unrecognised"} =>
    /\ reducer.state = [dragOverId |-> Null, draggingId |-> Null, dragOffset |-> <<0, 0>>]
    /\ reducer.state = InitialDragState
    /\ END_DRAG(reducer.state) = reducer.state

C22_Witness ==
  /\ reducer.action.type = "END_DRAG"
  /\ reducer.before.draggingId # Null
  /\ reducer.before.dragOverId # Null
  /\ reducer.before.dragOffset # <<0, 0>>
  /\ reducer.state = InitialDragState

\* The pointer of the last updateScrollState is within the top band, within
\* the bottom band, and the scroll position is at most the maximum.
InTopBand == autoScroll.y < autoScroll.top + autoScroll.scrollThreshold
InBottomBand == autoScroll.y > autoScroll.bottom - autoScroll.scrollThreshold
MaxScrollTop == autoScroll.scrollHeight - autoScroll.clientHeight
SpeedComputed == autoScroll.op = "updateScrollState" /\ autoScroll.container

\* C23: the auto-scroll speed computed from a pointer event is 0 whenever
\* the pointer is outside both edge threshold bands, whenever the content
\* fits the viewport, and whenever the container is already scrolled to the
\* extreme on the side of the nearby edge; a non-zero speed is negative only
\* when the pointer is within the top band with scrollTop > 0 and positive
\* only when it is within the bottom band with scrollTop below its maximum.
C23_SpeedZeroAndSign ==
  SpeedComputed =>
    /\ ~InTopBand /\ ~InBottomBand => autoScroll.scrollState.speed = 0
    /\ autoScroll.scrollHeight <= autoScroll.clientHeight => autoScroll.scrollState.speed = 0
    /\ InTopBand /\ autoScroll.scrollTop <= 0 => autoScroll.scrollState.speed = 0
    /\ InBottomBand /\ autoScroll.scrollTop >= MaxScrollTop => autoScroll.scrollState.speed = 0
    /\ autoScroll.scrollState.speed < 0 => InTopBand /\ autoScroll.scrollTop > 0
    /\ autoScroll.scrollState.speed > 0 => InBottomBand /\ autoScroll.scrollTop < MaxScrollTop

\* C24: for every container geometry and configured scrollThreshold, a
\* pointer at the container's exact vertical center yields auto-scroll
\* speed 0.
C24_CenterYieldsZero ==
  SpeedComputed /\ 2 * autoScroll.y = autoScroll.top + autoScroll.bottom =>
    autoScroll.scrollState.speed = 0

\* The containers whose order holds the key of the last press.
Holders == { c \in containers : Count(orderedChildren[c], press.key) > 0 }

\* C25: at every moment of a drag the dragged key is in the order of at
\* least one container of its group, and once the release has been handled
\* by all containers it is in the order of exactly one container, once,
\* whatever the interleaving of the containers' frame callbacks and release
\* handlers.
C25_DraggedKeyKept ==
  press.started =>
    /\ Holders # {}
    /\ \A c \in Holders : GroupId(c) = GroupId(press.c)
    /\ ReleaseDone =>
         /\ Cardinality(Holders) = 1
         /\ \A c \in Holders : Count(orderedChildren[c], press.key) = 1

\* The drag went from A to B and the release was handled: only B holds x.
C25_Witness ==
  /\ press.started /\ ReleaseDone
  /\ press.c = "A" /\ press.adoptions > 0
  /\ Holders = {"B"}

\* C26: whenever no drag is active in a container (after its release
\* handler or END_DRAG), that container's auto-scroll speed eventually
\* becomes 0 and no further scrollBy is applied; in particular releasing a
\* drag while the pointer is inside an edge threshold band does not leave
\* the container scrolling.
C26_ScrollStopsAfterDrag ==
  (autoScroll.clone # "active") ~> (autoScroll.scrollState.speed = 0 \/ autoScroll.clone = "active")

\* C27: after a drag has been released and its clone cleaned up (removed from
\* the document, nothing of the gesture still scheduled), no container still
\* holds a reference to that clone, so that every sortable container keeps
\* scheduling pointer-move frames.
C27_NoCloneReferenceLeft ==
  (press.started /\ Settled /\ body = << >>) => \A c \in containers : cloneRef[c] = 0

\* The clone of the drag of the last press, while it is in the document.
CloneOfThePress == { cl \in Range(body) : clones[cl].key = press.key /\ clones[cl].state # "settling" }

\* C28: the transition-end handler and the fallback cleanup timer started
\* for one drag's clone never remove or clear the clone of a later drag that
\* starts before they fire: a clone is removed only by the cleanup of the
\* drag that created or adopted it.  A cleanup starts at the release, so as
\* long as the pointer of a started drag is down, the clone of that drag is
\* in the document and its container refers to it.
C28_CloneOutlivesEarlierCleanups ==
  (press.started /\ pointerDown) =>
    \E cl \in CloneOfThePress : \E c \in containers : cloneRef[c] = cl

\* Container c runs a requested move frame in this step.
FrameRuns(c) == event.type = "none" /\ frameRequest[c].pending /\ ~frameRequest'[c].pending

\* C29: when a container runs a move frame and finds its clone tagged with
\* another container's id, it removes the dragged key from its own order
\* (the other keys stay as they are), clears its clone reference and
\* dispatches END_DRAG; removing the key again, now that it is absent,
\* leaves the order unchanged.
C29_DraggedOutFrame ==
  [][\A c \in containers :
       (/\ FrameRuns(c)
        /\ cloneRef[c] # 0 /\ cloneRef[c] \in Range(body)
        /\ clones[cloneRef[c]].cloneId # ContainerId(c))
         => /\ orderedChildren'[c] =
                 SelectSeq(orderedChildren[c], LAMBDA k : k # clones[cloneRef[c]].key)
            /\ cloneRef'[c] = 0
            /\ dragState'[c] = [dragOverId |-> Null, draggingId |-> Null, dragOffset |-> <<0, 0>>]
            /\ HandleRemove(orderedChildren'[c], clones[cloneRef[c]].key) = orderedChildren'[c]]_vars

\* A's frame found its clone tagged by B while the pointer was still down:
\* A gave y up.
C29_Witness ==
  /\ press.c = "A" /\ press.key = "y" /\ press.started /\ ~press.released
  /\ press.adoptedBy = "B"
  /\ cloneRef["A"] = 0
  /\ dragState["A"] = InitialDragState
  /\ Count(orderedChildren["A"], "y") = 0
  /\ Count(orderedChildren["B"], "y") = 1

\* The conditions under which container c may adopt clone cl with the
\* pointer at p.
MayAdopt(c, cl, p) ==
  /\ clones[cl].groupId = props.groupId[c]
  /\ clones[cl].state = "active"
  /\ p[1] >= ContainerRect(c).left /\ p[1] <= ContainerRect(c).right
  /\ p[2] >= ContainerRect(c).top /\ p[2] <= ContainerRect(c).bottom
  /\ (props.dragSources[c] = << >> \/ ContainerId(c) \in Range(props.dragSources[c]))

\* Clone cl is in the document, tagged by another container than c, and c
\* holds no reference to it.
ForeignClone(c, cl) ==
  /\ cl \in Range(body)
  /\ clones[cl].key # Null
  /\ clones[cl].cloneId # ContainerId(c)
  /\ cloneRef[c] # cl

ShiftInvoked(c) ==
  /\ FrameRuns(c)
  /\ \/ press'.shifts # press.shifts
     \/ press'.lastShiftTo # press.lastShiftTo
     \/ lastTargetKeyRef'[c] \notin {Null, lastTargetKeyRef[c]}

\* The frame of container c hovers key k: a position of the frame's closure
\* with a measured size is hit by the frame's pointer position.
FrameHovers(c, k) ==
  \E i \in 1 .. Len(frameRequest[c].positions) :
    LET pos == frameRequest[c].positions[i]
    IN /\ pos.key = k
       /\ pos.width > 0 /\ pos.height > 0 /\ pos.stage # "unknown"
       /\ frameRequest[c].p[1] >= ContainerRect(c).left + pos.left
       /\ frameRequest[c].p[1] <= ContainerRect(c).left + pos.left + pos.width
       /\ frameRequest[c].p[2] >= ContainerRect(c).top + pos.top - ScrollTop(c)
       /\ frameRequest[c].p[2] <= ContainerRect(c).top + pos.top - ScrollTop(c) + pos.height

\* C31: during an intra-container drag a move frame invokes shiftPositions
\* (and dispatches UPDATE_DRAG) only if some measured item is hovered and
\* that item differs from both the dragged item and the last reorder target;
\* shiftPositions is never invoked with from equal to to, and consecutive
\* frames hovering the same target invoke it at most once.
C31_ReorderOnlyOnNewTarget ==
  [][\A c \in containers :
       /\ ShiftInvoked(c) =>
            /\ FrameHovers(c, press'.lastShiftTo)
            /\ press'.lastShiftTo # press.key
            /\ press'.lastShiftTo # frameRequest[c].draggingId
            /\ press'.lastShiftTo # lastTargetKeyRef[c]
            /\ dragState'[c].dragOverId = press'.lastShiftTo
            /\ dragState'[c].draggingId = press.key
       /\ (/\ FrameRuns(c)
           /\ lastTargetKeyRef[c] # Null
           /\ FrameHovers(c, lastTargetKeyRef[c]))
            => /\ press' = press
               /\ keysRef'[c] = keysRef[c]
               /\ lastTargetKeyRef'[c] = lastTargetKeyRef[c]]_vars

\* The drag of x in A was reordered onto y and then onto z: two invocations,
\* each on a new target.
C31_Witness ==
  /\ press.c = "A" /\ press.key = "x" /\ press.started /\ ~press.released
  /\ press.shifts = 2 /\ press.lastShiftTo = "z"
  /\ lastTargetKeyRef["A"] = "z"
  /\ press.adoptions = 0
  /\ keysRef["A"] = <<"y", "z", "x">>

\* The release handler of container c runs in this step.
ReleaseHandled(c) == event.type = "up" /\ c \in event.todo /\ c \notin event'.todo

\* C32: per container at most one pointer-move frame callback is pending at
\* any time: a move event that arrives while a frame request is outstanding
\* schedules nothing, and the release handler cancels the outstanding
\* request so that no reorder or adoption runs after the release.
C32_OneFramePending ==
  /\ [](\A c \in containers :
          /\ frameRequest[c].callbacks <= 1
          /\ frameRequest[c].pending <=> frameRequest[c].callbacks = 1)
  /\ [][\A c \in containers :
          /\ (moves' = moves + 1 /\ frameRequest[c].callbacks > 0)
               => frameRequest'[c] = frameRequest[c]
          /\ ReleaseHandled(c)
               => frameRequest'[c].callbacks = 0 /\ ~frameRequest'[c].pending
          /\ (press.released /\ press'.released /\ event.type = "none")
               => /\ keysRef'[c] = keysRef[c]
                  /\ orderedChildren'[c] = orderedChildren[c]
                  /\ press'.shifts = press.shifts
                  /\ press'.adoptions = press.adoptions
                  /\ \A cl \in CloneIds :
                       clones'[cl].cloneId \in {clones[cl].cloneId, Null}]_vars

\* The release of a started drag is being delivered: A's handler has run
\* and left no request, the frame B requested for the last move is still
\* outstanding and B's handler is about to cancel it.
C32_Witness ==
  /\ press.c = "A" /\ press.started /\ press.released
  /\ event.type = "up" /\ event.todo = {"B"}
  /\ moves >= 2
  /\ frameRequest["A"].callbacks = 0
  /\ frameRequest["B"].pending /\ frameRequest["B"].callbacks = 1

\* C33: when a move frame callback runs, the pointer position it uses to
\* move the clone and to hit-test is the position of the latest move event
\* received before that frame (the one handleMouseMove stored in
\* cursorPosRef), also when several move events arrived while the frame
\* request was outstanding.
C33_FrameUsesLatestMove ==
  [][\A c \in containers : FrameRuns(c) => frameRequest[c].p = cursorPosRef[c]]_vars

\* The last release handler runs in this step, for a started drag released
\* at a position outside every container of the dragged item's group.
ReleasedOutside ==
  /\ press.started
  /\ event.type = "up" /\ event'.type = "none"
  /\ \A c \in containers :
       props.groupId[c] = props.groupId[press.c] =>
         \/ event.p[1] < ContainerRect(c).left \/ event.p[1] > ContainerRect(c).right
         \/ event.p[2] < ContainerRect(c).top \/ event.p[2] > ContainerRect(c).bottom

\* C34: a drag released while the pointer is outside every eligible
\* container of the group removes the dragged item from its origin
\* container's order, and it is inserted into no other container.
C34_ReleasedOutsideRemoves ==
  [][ReleasedOutside =>
       \A c \in containers : Count(orderedChildren'[c], press.key) = 0]_vars

\* C34, as the code has it: a drag released while the pointer is outside
\* every container of the group leaves the dragged item, once, in the order
\* of the container that held the drag at the release, which is the origin
\* container when no container adopted the item, and in no other order.
C34_ReleasedOutsideStays ==
  [][ReleasedOutside =>
       /\ press.destC \in containers
       /\ press.adoptions = 0 => press.destC = press.c
       /\ press.adoptions > 0 => press.destC # press.c
       /\ \A c \in containers :
            Count(orderedChildren'[c], press.key) = IF c = press.destC THEN 1 ELSE 0]_vars

\* x was dragged out of A, never adopted, and released between the
\* containers: A still holds x.
C34_Witness ==
  /\ press.c = "A" /\ press.key = "x" /\ press.started /\ ReleaseDone
  /\ press.adoptions = 0
  /\ pointer = <<150, 150>>
  /\ moves > 0 /\ cursorPosRef["A"] = <<150, 150>>
  /\ orderedChildren["A"] = <<"x">>
  /\ orderedChildren["B"] = <<"p">>

\* shiftPositions(from, to) is called in this step with two distinct keys
\* that are both in the ordered key list and in the position list.
ShiftsTracked(from, to) ==
  /\ from # to
  /\ \E i \in 1 .. Len(layout.keys) : layout.keys[i] = from
  /\ \E i \in 1 .. Len(layout.keys) : layout.keys[i] = to
  /\ \E i \in 1 .. Len(layout.positions) : layout.positions[i].key = from
  /\ \E i \in 1 .. Len(layout.positions) : layout.positions[i].key = to
  /\ CallShiftPositions(from, to)

\* C35: for two distinct keys from and to that are both tracked,
\* shiftPositions(from, to) yields an ordered key list that is a permutation
\* of the previous one in which from occupies the index that to had before
\* the call and the relative order of all other keys is unchanged, and the
\* position list is recomputed for that order.
C35_ShiftMovesFromToTo ==
  [][\A from \in LayoutKeys, to \in LayoutKeys :
       ShiftsTracked(from, to) =>
         /\ Len(layout'.keys) = Len(layout.keys)
         /\ \A k \in LayoutKeys : Count(layout'.keys, k) = Count(layout.keys, k)
         /\ \A i \in 1 .. Len(layout.keys) : layout.keys[i] = to => layout'.keys[i] = from
         /\ SelectSeq(layout'.keys, LAMBDA k : k # from)
              = SelectSeq(layout.keys, LAMBDA k : k # from)
         /\ layout'.positions
              = ComputeLayout(layout'.keys, layout'.cache, "", layout'.containerWidth)
         /\ layout'.cache = layout.cache]_vars

\* A shift of three measured keys was made: the key list is b, c, a and
\* the three positions follow it.
C35_Witness ==
  /\ layout.op = "shiftPositions" /\ layout.computed
  /\ layout.keys = <<"b", "c", "a">>
  /\ PosKeys(layout.positions) = <<"b", "c", "a">>
  /\ \A i \in 1 .. 3 : layout.positions[i].stage = "placed"

\* shiftPositions(from, to) is called in this step and one of the two keys
\* is missing from the ordered key list or from the position list.
ShiftsUntracked(from, to) ==
  /\ \/ \A i \in 1 .. Len(layout.keys) : layout.keys[i] # from
     \/ \A i \in 1 .. Len(layout.keys) : layout.keys[i] # to
     \/ \A i \in 1 .. Len(layout.positions) : layout.positions[i].key # from
     \/ \A i \in 1 .. Len(layout.positions) : layout.positions[i].key # to
  /\ CallShiftPositions(from, to)

\* C36: if either key passed to shiftPositions is absent from the ordered
\* key list or from the position list, the call is a no-op: the internal
\* ordered key list, the position list and the size cache are all left
\* unchanged.
C36_ShiftOfAbsentKeyIsNoOp ==
  [][\A from \in LayoutKeys, to \in LayoutKeys :
       ShiftsUntracked(from, to) =>
         /\ layout'.keys = layout.keys
         /\ layout'.positions = layout.positions
         /\ layout'.cache = layout.cache]_vars

\* The position list of the hook state l is the layout of its key list and
\* size cache: the same keys at the same places with the same sizes (the
\* stage of an entry depends on the call that computed it).
PositionsCurrent(l) ==
  [i \in 1 .. Len(l.positions) |-> [l.positions[i] EXCEPT !.stage = "any"]]
    = [p \in 1 .. Len(ComputeLayout(l.keys, l.cache, "", l.containerWidth)) |->
         [ComputeLayout(l.keys, l.cache, "", l.containerWidth)[p] EXCEPT !.stage = "any"]]

\* C37: after every confirmItemSize, shiftPositions or resetLayout call
\* returns, the position list equals the layout computed from the current
\* internal ordered key list and the current size cache (a call made on
\* positions that are not stale never leaves them stale), and the entry
\* returned by confirmItemSize, when there is one, carries the confirmed key.
C37_PositionsNeverStale ==
  [][/\ PositionsCurrent(layout) => PositionsCurrent(layout')
     /\ layout'.op = "resetLayout" => PositionsCurrent(layout')
     /\ \A h \in ItemHeights, key \in LayoutKeys :
          CallConfirmItemSize(h, key) =>
            \A i \in 1 .. Len(ReturnedByConfirmItemSize(h, key)) :
              ReturnedByConfirmItemSize(h, key)[i].key = key]_vars

\* The gutter, the item width and the column count the placement works with.
PlacedGutter == IF gutter < 0 THEN 0 ELSE gutter
PlacedWidth ==
  IF layout.cache # << >> /\ layout.cache[1].width # 0 THEN layout.cache[1].width ELSE 10
PlacedColumns ==
  IF (layout.containerWidth + PlacedGutter) \div (PlacedWidth + PlacedGutter) < 1 THEN 1
  ELSE (layout.containerWidth + PlacedGutter) \div (PlacedWidth + PlacedGutter)

\* The height accumulated in the column at offset left by the first n
\* entries of the position list: each entry of that column contributes its
\* height, or 300 when it is not measured, and the gutter.
RECURSIVE Accumulated(_, _)
Accumulated(left, n) ==
  IF n = 0 THEN 0
  ELSE Accumulated(left, n - 1)
         + IF layout.positions[n].left # left THEN 0
           ELSE (IF layout.positions[n].stage = "unknown" THEN 300
                 ELSE layout.positions[n].height) + PlacedGutter

\* C38: computeLayout places each emitted item in the lowest-index column
\* among the columns of minimal accumulated height, with left = columnIndex
\* * (itemWidth + gutter) and top = that column's accumulated height, where
\* each earlier entry contributed (its height, or defaultItemHeight when
\* unmeasured) + gutter to the column it was assigned; the column count is
\* max(1, floor((containerWidth + gutter) / (itemWidth + gutter))), a
\* negative gutter counts as 0, and the first item is at (0,0).
C38_ShortestColumnPlacement ==
  layout.op # "none" =>
    \A i \in 1 .. Len(layout.positions) :
      /\ \E col \in 0 .. PlacedColumns - 1 :
           /\ layout.positions[i].left = col * (PlacedWidth + PlacedGutter)
           /\ layout.positions[i].top = Accumulated(layout.positions[i].left, i - 1)
           /\ \A other \in 0 .. PlacedColumns - 1 :
                /\ Accumulated(other * (PlacedWidth + PlacedGutter), i - 1)
                     >= layout.positions[i].top
                /\ other < col =>
                     Accumulated(other * (PlacedWidth + PlacedGutter), i - 1)
                       > layout.positions[i].top
      /\ i = 1 => layout.positions[i].left = 0 /\ layout.positions[i].top = 0

\* Five items of heights 100, 50, 50, 50, 100 in two columns with a negative
\* gutter: the fourth, at a tie, went under the first, the fifth under the
\* third.
C38_Witness ==
  /\ gutter < 0 /\ layout.containerWidth = 205
  /\ Len(layout.positions) = 5
  /\ \A i \in 1 .. 5 : layout.positions[i].stage # "unknown"
  /\ [i \in 1 .. 5 |-> layout.positions[i].height] = <<100, 50, 50, 50, 100>>
  /\ [i \in 1 .. 5 |-> layout.positions[i].left] = <<0, 100, 100, 0, 100>>
  /\ [i \in 1 .. 5 |-> layout.positions[i].top] = <<0, 0, 50, 100, 100>>

\* The keys of the hook state l that have a size in its cache.
KnownKeys(l) ==
  { k \in Range(l.keys) :
      \E i \in 1 .. Len(l.cache) :
        l.cache[i].key = k /\ l.cache[i].width > 0 /\ l.cache[i].height > 0 }

\* The entries of stage unknown in the position list of l.
Probes(l) == { i \in 1 .. Len(l.positions) : l.positions[i].stage = "unknown" }

\* C40: starting from any ordered key list of n unique keys with an empty
\* size cache, if the size of the current unknown probe is confirmed again
\* and again, then each confirmation makes exactly one more key known and
\* after exactly n confirmations the position list contains every key with
\* a known size and no entry of stage unknown: the cache grows by one entry,
\* the probe's, at each confirmation, so it holds k entries after k
\* confirmations; a probe is shown as long as fewer than n keys are known.
C40_ProbeByProbe ==
  /\ [](layout.op # "none" =>
          /\ Cardinality(KnownKeys(layout)) = Len(layout.cache)
          /\ Cardinality(Probes(layout))
               = IF Len(layout.cache) < Len(layout.keys) THEN 1 ELSE 0
          /\ Len(layout.cache) = Len(layout.keys) =>
               /\ [i \in 1 .. Len(layout.positions) |-> layout.positions[i].key] = layout.keys
               /\ \A i \in 1 .. Len(layout.positions) :
                    layout.positions[i].width > 0 /\ layout.positions[i].height > 0)
  /\ [][layout' # layout =>
          /\ Len(layout'.cache) = Len(layout.cache) + 1
          /\ \E i \in Probes(layout) :
               /\ layout.positions[i].key \notin KnownKeys(layout)
               /\ KnownKeys(layout') = KnownKeys(layout) \cup {layout.positions[i].key}]_vars

\* Eight keys, eight confirmations: every key is placed with its size.
C40_Witness ==
  /\ Len(layout.keys) = MaxItems
  /\ Len(layout.cache) = MaxItems
  /\ Len(layout.positions) = MaxItems
  /\ \A i \in 1 .. MaxItems :
       layout.positions[i].key = layout.keys[i] /\ layout.positions[i].stage # "unknown"

\* C39: while a drag is active and shiftPositions has reordered the layout,
\* re-supplying the consumer's collection with the same keys in the same
\* order as before (a new array identity only, as on any parent re-render)
\* leaves the layout's key order and the position order unchanged until the
\* drag is released.
C39_RerenderKeepsDragOrder ==
  [][\A c \in containers :
       (/\ pointerDown /\ press.started /\ ~press.released
        /\ press.shifts > 0
        /\ dragState[c].draggingId = press.key
        /\ ParentRerender(c))
         => /\ keysRef'[c] = keysRef[c]
            /\ [i \in 1 .. Len(layoutRef'[c]) |-> layoutRef'[c][i].key]
                 = [i \in 1 .. Len(layoutRef[c]) |-> layoutRef[c][i].key]]_vars

====
